---- MODULE Spec2Model ----
(***************************************************************************)
(* Agent registry (lazy singletons under a lock), the fallback-retry       *)
(* controller IAMAssistant.chat_on_thread, token verification and the      *)
(* thread and chat endpoints of the IAM assistant service.                 *)
(*                                                                         *)
(* Requests are served by workers.  A sync endpoint or getter runs on a    *)
(* thread of the server's pool: every read, write and lock operation is a  *)
(* step of its own.  An async getter or endpoint runs as a coroutine on    *)
(* the one event loop: the code between two awaits is one step.            *)
(***************************************************************************)
EXTENDS Integers, Sequences, FiniteSets, TLC

\* ------------------------------------------------------------------ bounds
NWorkers == 2
MaxCalls == 3
MaxRequests == 2
MaxHistory == 2
MaxDashboardRequests == 3
MaxTime == 4
MaxEvents == 5

Workers == 1..NWorkers

\* ------------------------------------------------------------ agent kinds
SyncKinds == {"assistant", "orchestrator", "provisioning"}
McpKinds == {"okta", "saviynt"}
DiscoveryKinds == {"entra"} \cup McpKinds
AsyncKinds == {"ad"} \cup DiscoveryKinds
Kinds == SyncKinds \cup AsyncKinds

\* service_id of the AzureChatCompletion registered on the Entra kernel
EntraServiceId == "entra_provisioning"

\* the tool list an MCP server reports at discovery: none, or these tools
ToolList == <<"create_user", "list_users">>
DiscoveryResults == {<< >>, ToolList}

VARIABLES
    slot,        \* slot[k]: 0 (None) or the index in insts[k] of the instance
    lock,        \* lock[k]: 0 (free) or the worker holding the registry lock
    insts,       \* insts[k]: the instances of kind k constructed so far
    pc,          \* pc[w]: where worker w stands
    kind,        \* kind[w]: the kind whose getter w runs
    cand,        \* cand[w]: the instance w constructed and has yet to store
    got,         \* got[w]: the instance the getter returned to w (0: none)
    outcome,     \* outcome[w]: "none", "returned" or "raised" for w's last call
    ncalls,      \* getter calls started so far
    returned,    \* returned[k]: the instances the getter of k has returned
    discAtEntry, \* discAtEntry[w]: available_tools was non-empty when w called
    op,          \* op[w]: the request w serves: "get", "thread", "chat", "ad_chat"
    reply,       \* reply[w]: the HTTP response of w's last request
    threads,     \* threads[t]: the messages of thread t of the agent service
    issued,      \* the thread ids POST /thread has handed to clients
    call,        \* call[w]: the locals of w's chat_on_thread / ad chat call
    last,        \* the chat_on_thread call that just ended, until the next request
    cred,        \* cred[w]: the bearer token of the request w serves
    handed,      \* handed[k]: the thread ids the service generated for kind k
    dashboard_plugin,     \* _dashboard_plugin: 0 (None) or 1 (the IAMPlugin)
    dashboard_cache_lock, \* _dashboard_cache_lock: 0 (free) or its holder
    dashboard_cache,      \* _dashboard_cache: 0 (None) or the snapshot
    dashboard_cache_ts,   \* _dashboard_cache_ts
    clock,                \* time.time()
    builds,               \* the snapshots build_iam_dashboard has returned
    stored,               \* the time at which _dashboard_cache was assigned
    refreshed,            \* refreshed[w]: the number of w's last dashboard
                          \* request and its parameter refresh
    active_page,          \* st.session_state["active_page"] of the client
    last_active_page,     \* st.session_state["last_active_page"], or "none"
    session,              \* the other keys of st.session_state that are set
    pending,              \* st.rerun() was called: a script run is due
    sent,                 \* the body of the last chat request of the client
    since,                \* since[p]: the queries of page p since its history
                          \* was last deleted
    dropped,              \* what the last handle_page_entry deleted
    nevents               \* the user events so far

regVars == <<slot, lock, insts, pc, kind, cand, got, outcome, ncalls,
             returned, discAtEntry, op, reply>>

chatVars == <<threads, issued, call, last>>

reqVars == <<cred, handed>>

dashVars == <<dashboard_plugin, dashboard_cache_lock, dashboard_cache,
              dashboard_cache_ts, clock, builds, stored, refreshed>>

clientVars == <<active_page, last_active_page, session, pending, sent, since,
                dropped, nevents>>

vars == <<regVars, chatVars, reqVars, dashVars, clientVars>>

\* A freshly constructed agent object.
NewAgent ==
    [ready |-> FALSE, tools |-> << >>, connects |-> 0, services |-> {},
     registrations |-> 0, inits |-> 0, hist |-> << >>]

\* the agent in the registry slot of kind k (slot[k] # 0)
Agent(k) == insts[k][slot[k]]

\* getattr(agent, "available_tools", None) is truthy
HasTools(k) == slot[k] # 0 /\ Agent(k).tools # << >>

\* texts are sequences of words; an exception is the text str(e) gives
ConstructionError == <<"No Cognitive Search connection found for IAM documents.">>
McpError == <<"MCP connection failed">>
ServiceExists == <<"Service with service_id 'entra_provisioning' already exists">>

NoReply == [code |-> 0, body |-> [none |-> TRUE]]

\* the locals of a handler that has not run yet
NoCall ==
    [tid |-> 0, atid |-> "", query |-> << >>, resp |-> << >>, tmp |-> 0,
     fb |-> << >>, base |-> 0, eph |-> 0, runs |-> 0, agents |-> {},
     produced |-> FALSE, own |-> << >>, listed |-> FALSE, hist |-> << >>,
     ctx |-> << >>]

NoError == [type |-> "none", msg |-> << >>]

NoLast ==
    [op |-> "none", status |-> "none", err |-> NoError, phase |-> "none",
     result |-> << >>, c |-> NoCall]

\* ------------------------------------------------------- bearer tokens
\* a bearer token as verify_token looks at it: is there one, can its header
\* be read, which key id the header names, whether its signature is the
\* issuer's, whether its exp claim lies in the past
Token(form, kid, sig, expired) ==
    [form |-> form, kid |-> kid, sig |-> sig, expired |-> expired]

\* no request, no token
NoToken == Token("none", "none", "none", FALSE)

ValidToken == Token("jwt", "known", "issuer", FALSE)

\* no Authorization header; a string that is no JWT; a JWT without a kid in
\* its header; a JWT of a key the issuer does not publish; an expired JWT of
\* the issuer; a JWT that names a key of the issuer and is signed by another
\* key; a JWT of the issuer
Tokens ==
    { Token("missing", "none", "none", FALSE),
      Token("garbage", "none", "none", FALSE),
      Token("jwt", "absent", "other", FALSE),
      Token("jwt", "unknown", "other", FALSE),
      Token("jwt", "known", "issuer", TRUE),
      Token("jwt", "known", "other", FALSE),
      ValidToken }

Unauthorized(text) == [code |-> 401, body |-> [detail |-> <<text>>]]

Verified == [code |-> 0, body |-> [none |-> TRUE]]

\* verify_token(token): the responses the dependency can end with for tok,
\* Verified standing for "return payload".  jwt.decode is called with
\* verify_signature False: the signature is not looked at, and whether the
\* exp claim is depends on the release of the jwt library (it is in 1.x, it is
\* not in 2.x)
VerifyToken(tok) ==
    IF tok.form = "missing" THEN {Unauthorized("Not authenticated")}
    ELSE IF tok.form # "jwt" THEN {Unauthorized("Invalid token: ")}
    ELSE IF tok.kid = "absent" THEN {Unauthorized("Token verification failed: ")}
    ELSE {Unauthorized("Token verification failed: ")} \cup
         (IF tok.kid # "known"
          THEN { }
          ELSE IF tok.expired
               THEN {Unauthorized("Token has expired"), Verified}
               ELSE {Verified})

Init ==
    /\ slot = [k \in Kinds |-> 0]
    /\ lock = [k \in Kinds |-> 0]
    /\ insts = [k \in Kinds |-> << >>]
    /\ pc = [w \in Workers |-> "idle"]
    /\ kind = [w \in Workers |-> "none"]
    /\ cand = [w \in Workers |-> 0]
    /\ got = [w \in Workers |-> 0]
    /\ outcome = [w \in Workers |-> "none"]
    /\ ncalls = 0
    /\ returned = [k \in Kinds |-> {}]
    /\ discAtEntry = [w \in Workers |-> FALSE]
    /\ op = [w \in Workers |-> "get"]
    /\ reply = [w \in Workers |-> NoReply]
    /\ threads = << >>
    /\ issued = {}
    /\ call = [w \in Workers |-> NoCall]
    /\ last = NoLast
    /\ cred = [w \in Workers |-> NoToken]
    /\ handed = [k \in Kinds |-> << >>]
    /\ dashboard_plugin = 0
    /\ dashboard_cache_lock = 0
    /\ dashboard_cache = 0
    /\ dashboard_cache_ts = 0
    /\ clock = 1
    /\ builds = 0
    /\ stored = 0
    /\ refreshed = [w \in Workers |-> [no |-> 0, refresh |-> 0]]
    /\ active_page = "main_chat"
    /\ last_active_page = "none"
    /\ session = [k \in {} |-> 0]
    /\ pending = TRUE
    /\ sent = [page |-> "none", thread_id |-> "", message |-> << >>,
               chat_history |-> << >>]
    /\ since = [p \in {"entra_id_assistant", "okta_agent_assistant",
                        "saviynt_agent_assistant"} |-> 0]
    /\ dropped = [k \in {} |-> 0]
    /\ nevents = 0

\* --------------------------------------------------- leaving a getter
\* where the caller of the getter goes on once the getter has returned
AfterGetter(w) ==
    CASE op[w] = "get" -> "idle"
      [] op[w] = "thread" -> "th_create"
      [] op[w] = "chat" -> "c_msg"
      [] op[w] = "ad_chat" -> "ad_hist"
      [] op[w] = "ad_thread" -> "adt_create"
      [] op[w] = "agent_chat" -> "ag_conv"
      [] op[w] = "orch_chat" -> "orch_proc"

\* the handler's except clause: HTTPException(500, detail=f"<what> failed: {e}")
FailedPrefix(w) ==
    CASE op[w] = "thread" -> "Failed to create thread: "
      [] op[w] = "chat" -> "Chat failed: "
      [] op[w] = "ad_chat" -> "AD provisioning chat failed: "
      [] op[w] = "ad_thread" -> "Failed to create AD thread: "
      [] op[w] = "orch_chat" -> "Orchestrator chat failed: "
      [] op[w] = "agent_chat" /\ kind[w] = "entra" -> "Entra Agent chat failed: "
      [] op[w] = "agent_chat" /\ kind[w] = "okta" -> "Okta Agent chat failed: "
      [] op[w] = "agent_chat" /\ kind[w] = "saviynt" -> "Saviynt Agent chat failed: "
      [] OTHER -> ""

\* kind[w] of a worker that runs no getter
NoKind == "none"

\* w's step does not leave the getter
Goto(w, p) ==
    /\ pc' = [pc EXCEPT ![w] = p]
    /\ UNCHANGED <<kind, got, returned, outcome, reply, chatVars, reqVars,
                   dashVars, clientVars>>

\* "return _agent": the getter hands the instance in slot s of kind k to w
Return(w, k, s) ==
    /\ pc' = [pc EXCEPT ![w] = AfterGetter(w)]
    /\ got' = [got EXCEPT ![w] = IF op[w] = "get" THEN 0 ELSE s]
    /\ kind' = [kind EXCEPT ![w] = IF op[w] = "get" THEN NoKind ELSE @]
    /\ returned' = [returned EXCEPT ![k] = @ \cup {s}]
    /\ outcome' = [outcome EXCEPT ![w] = IF op[w] = "get" THEN "returned" ELSE @]
    /\ UNCHANGED <<reply, chatVars, reqVars, dashVars, clientVars>>

\* an exception of text msg leaves the getter; a handler turns it into a 500
Raise(w, msg) ==
    /\ pc' = [pc EXCEPT ![w] = "idle"]
    /\ kind' = [kind EXCEPT ![w] = NoKind]
    /\ outcome' = [outcome EXCEPT ![w] = "raised"]
    /\ reply' = [reply EXCEPT ![w] =
                    IF op[w] = "get" THEN @
                    ELSE [code |-> 500,
                          body |-> [detail |-> <<FailedPrefix(w)>> \o msg]]]
    /\ got' = [got EXCEPT ![w] = 0]
    /\ call' = [call EXCEPT ![w] = NoCall]
    /\ cred' = [cred EXCEPT ![w] = NoToken]
    /\ UNCHANGED <<returned, threads, issued, last, handed, dashVars, clientVars>>

\* w is the first worker of the pool that serves no request
FirstFree(w) ==
    /\ pc[w] = "idle"
    /\ \A v \in Workers : v < w => pc[v] # "idle"

\* ------------------------------------------------- sync getters (threads)
\* a caller asks for the agent of kind k
StartGet(w, k) ==
    /\ FirstFree(w)
    /\ ncalls < MaxCalls
    /\ ncalls' = ncalls + 1
    /\ op' = [op EXCEPT ![w] = "get"]
    /\ kind' = [kind EXCEPT ![w] = k]
    /\ pc' = [pc EXCEPT ![w] = IF k \in SyncKinds THEN "check1" ELSE "enter"]
    /\ got' = [got EXCEPT ![w] = 0]
    /\ outcome' = [outcome EXCEPT ![w] = "none"]
    /\ discAtEntry' = [discAtEntry EXCEPT ![w] = FALSE]
    /\ UNCHANGED <<slot, lock, insts, cand, returned, reply, chatVars, reqVars,
                   dashVars, clientVars>>

\* "if _assistant is None:" read without the lock
Check1(w) ==
    /\ pc[w] = "check1"
    /\ Goto(w, IF slot[kind[w]] = 0 THEN "acquire" ELSE "ret")
    /\ UNCHANGED <<slot, lock, insts, cand, ncalls, discAtEntry, op>>

\* "with _assistant_lock:" blocks until the lock is free
Acquire(w) ==
    /\ pc[w] = "acquire"
    /\ lock[kind[w]] = 0
    /\ lock' = [lock EXCEPT ![kind[w]] = w]
    /\ Goto(w, "check2")
    /\ UNCHANGED <<slot, insts, cand, ncalls, discAtEntry, op>>

\* the second check drops the re-read of the slot under the lock
Check2NoRecheck(w) ==
    /\ pc[w] = "check2"
    /\ Goto(w, "construct")
    /\ UNCHANGED <<slot, lock, insts, cand, ncalls, discAtEntry, op>>

\* "if _assistant is None:" read again under the lock; leaving the with block
\* releases the lock
Check2(w) ==
    /\ pc[w] = "check2"
    /\ IF slot[kind[w]] = 0
       THEN Goto(w, "construct") /\ UNCHANGED lock
       ELSE Goto(w, "ret") /\ lock' = [lock EXCEPT ![kind[w]] = 0]
    /\ UNCHANGED <<slot, insts, cand, ncalls, discAtEntry, op>>

\* a constructor that raises leaves the lock taken
ConstructKeepsLock(w) ==
    LET k == kind[w] IN
    /\ pc[w] = "construct"
    /\ \/ /\ insts' = [insts EXCEPT ![k] = Append(@, NewAgent)]
          /\ cand' = [cand EXCEPT ![w] = Len(insts[k]) + 1]
          /\ Goto(w, "assign")
       \/ /\ Raise(w, ConstructionError)
          /\ UNCHANGED <<insts, cand>>
    /\ UNCHANGED <<slot, lock, ncalls, discAtEntry, op>>

\* the constructor runs under the lock: it builds an instance, or raises
\* (IAMAssistant.__init__: no Cognitive Search connection) and the lock is
\* released with the slot still empty
Construct(w) ==
    LET k == kind[w] IN
    /\ pc[w] = "construct"
    /\ \/ /\ insts' = [insts EXCEPT ![k] = Append(@, NewAgent)]
          /\ cand' = [cand EXCEPT ![w] = Len(insts[k]) + 1]
          /\ Goto(w, "assign")
          /\ UNCHANGED lock
       \/ /\ lock' = [lock EXCEPT ![k] = 0]
          /\ Raise(w, ConstructionError)
          /\ UNCHANGED <<insts, cand>>
    /\ UNCHANGED <<slot, ncalls, discAtEntry, op>>

\* "_assistant = IAMAssistant()": the instance is stored, the lock released
Assign(w) ==
    LET k == kind[w] IN
    /\ pc[w] = "assign"
    /\ slot' = [slot EXCEPT ![k] = cand[w]]
    /\ cand' = [cand EXCEPT ![w] = 0]
    /\ lock' = [lock EXCEPT ![k] = 0]
    /\ Goto(w, "ret")
    /\ UNCHANGED <<insts, ncalls, discAtEntry, op>>

\* "return _assistant"
Ret(w) ==
    /\ pc[w] = "ret"
    /\ Return(w, kind[w], slot[kind[w]])
    /\ UNCHANGED <<slot, lock, insts, cand, ncalls, discAtEntry, op>>

\* ------------------------------------ async getters (event-loop coroutines)
\* the registry after the constructor of kind k has built one more instance
Built(k) == [insts EXCEPT ![k] = Append(@, NewAgent)]

\* EntraIDMCPAgent / OktaAgentMCP / SaviyntAgentMCP .initialize(): tool
\* discovery stores the discovered tools; on an agent that has its tools it
\* changes nothing
Initialize(a, found) ==
    [a EXCEPT !.tools = IF @ = << >> THEN found ELSE @, !.inits = @ + 1]

\* Kernel.add_service(service): a service_id is registered once
AddService(a, id) ==
    [a EXCEPT !.services = @ \cup {id}, !.registrations = @ + 1]

\* get_ad_agent up to its await: the slot is non-empty and is returned, or the
\* lock is taken, the agent constructed and stored, and initialize() awaited
\* with the lock still held
AdEnter(w) ==
    /\ pc[w] = "enter"
    /\ kind[w] = "ad"
    /\ IF slot["ad"] # 0
       THEN /\ Return(w, "ad", slot["ad"])
            /\ UNCHANGED <<slot, lock, insts>>
       ELSE /\ lock["ad"] = 0
            /\ \/ /\ insts' = Built("ad")
                  /\ slot' = [slot EXCEPT !["ad"] = Len(insts["ad"]) + 1]
                  /\ lock' = [lock EXCEPT !["ad"] = w]
                  /\ Goto(w, "ad_init")
               \/ /\ Raise(w, ConstructionError)
                  /\ UNCHANGED <<slot, lock, insts>>
    /\ UNCHANGED <<cand, ncalls, discAtEntry, op>>

\* "await _ad_agent.initialize()" ends: the with block is left, which releases
\* the lock, and the agent is returned or the error of initialize() raised
AdInitDone(w) ==
    /\ pc[w] = "ad_init"
    /\ lock' = [lock EXCEPT !["ad"] = 0]
    /\ \/ /\ insts' = [insts EXCEPT !["ad"][slot["ad"]] =
                          [@ EXCEPT !.ready = TRUE, !.inits = @ + 1]]
          /\ Return(w, "ad", slot["ad"])
       \/ /\ Raise(w, McpError)
          /\ UNCHANGED insts
    /\ UNCHANGED <<slot, cand, ncalls, discAtEntry, op>>

\* the discovery check is dropped: every call runs discovery
DiscoveryEnterAlways(w) ==
    LET k == kind[w]
        build == slot[k] = 0
    IN
    /\ pc[w] = "enter"
    /\ k \in DiscoveryKinds
    /\ build => lock[k] = 0
    /\ \/ /\ insts' = IF build THEN Built(k) ELSE insts
          /\ slot' = [slot EXCEPT ![k] = IF build THEN Len(insts[k]) + 1 ELSE @]
          /\ discAtEntry' = [discAtEntry EXCEPT ![w] = HasTools(k)]
          /\ Goto(w, IF k = "entra" THEN "entra_connect" ELSE "mcp_init")
       \/ /\ build
          /\ Raise(w, ConstructionError)
          /\ UNCHANGED <<slot, insts, discAtEntry>>
    /\ UNCHANGED <<lock, cand, ncalls, op>>

\* get_entra_agent / get_okta_agent / get_saviynt_agent up to the first await:
\* double-checked construction under the lock (taken and released within the
\* step), then "if not getattr(agent, 'available_tools', None)": discovery is
\* started, or the agent returned
DiscoveryEnter(w) ==
    LET k == kind[w]
        build == slot[k] = 0
    IN
    /\ pc[w] = "enter"
    /\ k \in DiscoveryKinds
    /\ build => lock[k] = 0
    /\ \/ /\ insts' = IF build THEN Built(k) ELSE insts
          /\ slot' = [slot EXCEPT ![k] = IF build THEN Len(insts[k]) + 1 ELSE @]
          /\ IF HasTools(k)
             THEN /\ Return(w, k, slot[k])
                  /\ UNCHANGED discAtEntry
             ELSE /\ Goto(w, IF k = "entra" THEN "entra_connect" ELSE "mcp_init")
                  /\ discAtEntry' = [discAtEntry EXCEPT ![w] = HasTools(k)]
       \/ /\ build
          /\ Raise(w, ConstructionError)
          /\ UNCHANGED <<slot, insts, discAtEntry>>
    /\ UNCHANGED <<lock, cand, ncalls, op>>

\* "await _entra_agent.mcp_client.connect()" ends; then, without an await,
\* kernel.add_service(AzureChatCompletion(service_id="entra_provisioning")),
\* which raises when that service_id is registered already; then
\* initialize() is awaited
EntraConnectDone(w) ==
    LET a == Agent("entra") IN
    /\ pc[w] = "entra_connect"
    /\ \/ /\ EntraServiceId \notin a.services
          /\ insts' = [insts EXCEPT !["entra"][slot["entra"]] =
                          AddService([a EXCEPT !.connects = @ + 1], EntraServiceId)]
          /\ Goto(w, "entra_init")
       \/ /\ EntraServiceId \in a.services
          /\ insts' = [insts EXCEPT !["entra"][slot["entra"]].connects = @ + 1]
          /\ Raise(w, ServiceExists)
       \/ /\ Raise(w, McpError)
          /\ UNCHANGED insts
    /\ UNCHANGED <<slot, lock, cand, ncalls, discAtEntry, op>>

\* "await agent.initialize()" of a discovery kind ends: the tools are
\* discovered and the agent returned, or the error raised
DiscoveryInitDone(w) ==
    LET k == kind[w] IN
    /\ pc[w] \in {"entra_init", "mcp_init"}
    /\ \/ \E found \in DiscoveryResults :
             /\ insts' = [insts EXCEPT ![k][slot[k]] = Initialize(@, found)]
             /\ Return(w, k, slot[k])
       \/ /\ Raise(w, McpError)
          /\ UNCHANGED insts
    /\ UNCHANGED <<slot, lock, cand, ncalls, discAtEntry, op>>

\* ------------------------------------------------------------ the registry
GetterStep(w) ==
    \/ Check1(w)
    \/ Acquire(w)
    \/ Check2(w)
    \/ Construct(w)
    \/ Assign(w)
    \/ Ret(w)
    \/ AdEnter(w)
    \/ AdInitDone(w)
    \/ DiscoveryEnter(w)
    \/ EntraConnectDone(w)
    \/ DiscoveryInitDone(w)

NextRegistry ==
    \E w \in Workers :
        \/ \E k \in Kinds : StartGet(w, k)
        \/ GetterStep(w)

SpecRegistry == Init /\ [][NextRegistry]_vars

\* the registry when every call goes on: a thread of the pool that can take
\* its next step takes it, and every awaited call (initialize, connect) ends,
\* by returning or by raising
Fairness == \A w \in Workers : WF_vars(GetterStep(w))

\* one kind for each shape of getter: double-checked locking in a pool
\* thread, the lock held across an await, discovery after the lock is released
\* by a getter with and by one without the connect step
GetterShapes == {"assistant", "ad", "entra", "okta"}

NextRegistryFair ==
    \E w \in Workers :
        \/ \E k \in GetterShapes : StartGet(w, k)
        \/ GetterStep(w)

SpecRegistryFair == Init /\ [][NextRegistryFair]_vars /\ Fairness

\* ------------------------------------------------------------------ texts
\* text contains marker as a run of consecutive words: Python's "marker in text"
Contains(marker, text) ==
    \E i \in 1..(Len(text) - Len(marker) + 1) :
        SubSeq(text, i, i + Len(marker) - 1) = marker

MarkerDontKnow == <<"I", "don't", "know", "the", "answer">>
MarkerDocument == <<"The", "document", "does", "not">>

\* the fallback test is given one more wording to react to
HasRefusalMarkerAlsoNotAvailable(text) ==
    \/ Contains(MarkerDontKnow, text)
    \/ Contains(MarkerDocument, text)
    \/ Contains(<<"The", "information", "is", "not", "available">>, text)

\* "I don't know the answer" in response_text or
\* "The document does not" in response_text
HasRefusalMarker(text) ==
    \/ Contains(MarkerDontKnow, text)
    \/ Contains(MarkerDocument, text)

NoResponse == <<"(robot)", "No", "response", "received.">>
NoFallbackResponse == <<"(robot)", "No", "fallback", "response", "received.">>

\* f"[Recovered Answer]\n{fallback_response}"
Recovered(text) == <<"[Recovered Answer]", "\n">> \o text

\* what the agent may answer
Answer == <<"User", "A,", "User", "B">>
RefusalDontKnow == <<"I", "don't", "know", "the", "answer", "to", "that.">>
RefusalDocument == <<"Sorry.", "The", "document", "does", "not", "say.">>
NotAvailable ==
    <<"The", "information", "is", "not", "available", "in", "the",
      "documentation.">>
Responses == {Answer, RefusalDontKnow, RefusalDocument, NotAvailable}

\* what the user asks in the n-th request: no code looks into a query, so one
\* text per request, different from the text of every other request, stands
\* for all of them
Query(n) == <<"query", ToString(n)>>

\* thread ids clients of /ad/chat send
AdThreadIds == {"ad-1", "ad-2"}

\* the exceptions an external call may raise: azure.core's
\* ServiceResponseError (connection closed by the peer, read timeout),
\* ServiceRequestError (connection timeout), which is a failure of the
\* transport of another class, and HttpResponseError (the service refuses the
\* request), which is none
MarkerRemoteClosed ==
    <<"Remote", "end", "closed", "connection", "without", "response">>
Errors ==
    { [type |-> "ServiceResponseError",
       msg |-> <<"Connection", "aborted.">> \o MarkerRemoteClosed],
      [type |-> "ServiceResponseError", msg |-> <<"Read", "timed", "out.">>],
      [type |-> "ServiceRequestError", msg |-> <<"Connection", "timed", "out.">>],
      [type |-> "HttpResponseError", msg |-> <<"No", "thread", "found">>] }

\* the classes of the exceptions that are failures of the transport
TransportErrors == {"ServiceResponseError", "ServiceRequestError"}

ConnectionLost ==
    <<"(x)", "Connection", "to", "Azure", "AI", "service", "lost.", "Please",
      "try", "again.">>

\* every ServiceResponseError gives the one fixed text
OnErrorFixed(e) ==
    IF e.type = "ServiceResponseError"
    THEN ConnectionLost
    ELSE <<"(x)", "Unexpected", "error", "occurred:">> \o e.msg

\* the except clauses of chat_on_thread: the text returned for exception e
OnError(e) ==
    IF e.type = "ServiceResponseError"
    THEN IF Contains(MarkerRemoteClosed, e.msg)
         THEN ConnectionLost
         ELSE <<"(x)", "Service", "error:">> \o e.msg
    ELSE <<"(x)", "Unexpected", "error", "occurred:">> \o e.msg

\* ------------------------------------------------------ the agent service
UserMsg(text) == [role |-> "user", content |-> text]
AssistantMsg(text) == [role |-> "assistant", content |-> text]

\* the positions of the assistant messages of a thread
AssistantAt(msgs) == {i \in 1..Len(msgs) : msgs[i].role = "assistant"}

Max(S) == CHOOSE x \in S : \A y \in S : y <= x

\* messages.get_last_text_message_by_role("assistant") with the fallback text
\* of the caller: the newest assistant message of the thread, or none
LastAssistantText(msgs, none) ==
    IF AssistantAt(msgs) = {} THEN none
    ELSE msgs[Max(AssistantAt(msgs))].content

\* no request is being served
Quiet == \A w \in Workers : pc[w] = "idle"

\* what handlers leave alone in the registry
RegFrame ==
    UNCHANGED <<slot, lock, insts, cand, returned, discAtEntry, outcome, handed>>

\* a request whose token verify_token has let through is given to worker w,
\* the first worker that is free
Accept(w, o, k, tok) ==
    /\ FirstFree(w)
    /\ ncalls < MaxCalls
    /\ ncalls' = ncalls + 1
    /\ op' = [op EXCEPT ![w] = o]
    /\ kind' = [kind EXCEPT ![w] = k]
    /\ pc' = [pc EXCEPT ![w] = IF o = "id_thread" THEN "idt_make"
                               ELSE IF k \in SyncKinds THEN "check1" ELSE "enter"]
    /\ reply' = [reply EXCEPT ![w] = NoReply]
    /\ last' = NoLast
    /\ cred' = [cred EXCEPT ![w] = tok]
    /\ UNCHANGED <<got, threads, issued, dashVars, clientVars>>
    /\ RegFrame

\* the requests are served one after the other
Admit(w, o, k, tok) == Quiet /\ Accept(w, o, k, tok)

\* a request with a token verify_token lets through
Arrive(w, o, k) == Admit(w, o, k, ValidToken)

\* the handler of w ends with HTTP response r
Respond(w, r) ==
    /\ pc' = [pc EXCEPT ![w] = "idle"]
    /\ kind' = [kind EXCEPT ![w] = NoKind]
    /\ got' = [got EXCEPT ![w] = 0]
    /\ reply' = [reply EXCEPT ![w] = r]
    /\ call' = [call EXCEPT ![w] = NoCall]
    /\ cred' = [cred EXCEPT ![w] = NoToken]
    /\ UNCHANGED <<ncalls, op, dashVars, clientVars>>

\* the handler of w goes on at p with locals c
Step(w, p, c) ==
    /\ pc' = [pc EXCEPT ![w] = p]
    /\ call' = [call EXCEPT ![w] = c]
    /\ UNCHANGED <<kind, got, reply, ncalls, op, last, cred, dashVars, clientVars>>

\* ------------------------------------------------------------ POST /thread
StartThread(w) ==
    /\ Arrive(w, "thread", "assistant")
    /\ UNCHANGED call

\* assistant.create_thread(): a new, empty thread, its id returned; or 500
CreateThread(w) ==
    /\ pc[w] = "th_create"
    /\ \/ /\ threads' = Append(threads, << >>)
          /\ issued' = issued \cup {Len(threads) + 1}
          /\ Respond(w, [code |-> 201, body |-> [thread_id |-> Len(threads) + 1]])
       \/ \E e \in Errors :
             /\ Respond(w, [code |-> 500,
                            body |-> [detail |-> <<FailedPrefix(w)>> \o e.msg]])
             /\ UNCHANGED <<threads, issued>>
    /\ UNCHANGED last
    /\ RegFrame

\* ------------------------------------- POST /chat: IAMAssistant.chat_on_thread
\* a client sends its query on thread t, an id POST /thread gave it
StartChat(w, t) ==
    /\ t \in issued
    /\ Arrive(w, "chat", "assistant")
    /\ call' = [call EXCEPT ![w] =
                   [NoCall EXCEPT !.tid = t, !.query = Query(ncalls + 1),
                                  !.base = Len(threads[t])]]

\* the endpoint answers with the envelope of the other chat endpoints
ChatReturnsEnvelope(w, text, c) ==
    /\ Respond(w, [code |-> 200, body |-> [action |-> "none", result |-> text]])
    /\ last' = [op |-> "chat", status |-> "ok", err |-> NoError,
                phase |-> IF c.tmp # 0 THEN "fallback" ELSE "primary",
                result |-> text, c |-> c]

\* chat_on_thread returns text; the endpoint wraps it in ChatResponse
ChatReturns(w, text, c) ==
    /\ Respond(w, [code |-> 200, body |-> [reply |-> text]])
    /\ last' = [op |-> "chat", status |-> "ok", err |-> NoError,
                phase |-> IF c.tmp # 0 THEN "fallback" ELSE "primary",
                result |-> text, c |-> c]

\* a call that fails after its primary response hands back that response
ChatFailsKeepsRefusal(w, e, c) ==
    LET text == IF c.listed /\ HasRefusalMarker(c.resp) THEN c.resp
                ELSE OnError(e)
    IN
    /\ Respond(w, [code |-> 200, body |-> [reply |-> text]])
    /\ last' = [op |-> "chat", status |-> "error", err |-> e,
                phase |-> IF c.listed /\ HasRefusalMarker(c.resp)
                          THEN "fallback" ELSE "primary",
                result |-> text, c |-> c]

\* an external call raised e: the except clauses turn it into the returned text
ChatFails(w, e, c) ==
    /\ Respond(w, [code |-> 200, body |-> [reply |-> OnError(e)]])
    /\ last' = [op |-> "chat", status |-> "error", err |-> e,
                phase |-> IF c.listed /\ HasRefusalMarker(c.resp)
                          THEN "fallback" ELSE "primary",
                result |-> OnError(e), c |-> c]

\* the user message is put in front of the messages of the thread
ChatPostMessagePrepends(w) ==
    LET c == call[w] IN
    /\ pc[w] = "c_msg"
    /\ threads' = [threads EXCEPT ![c.tid] = <<UserMsg(c.query)>> \o @]
    /\ Step(w, "c_run", c)
    /\ UNCHANGED issued
    /\ RegFrame

\* step 1: create_message(thread_id, role="user", content=user_query)
ChatPostMessage(w) ==
    LET c == call[w] IN
    /\ pc[w] = "c_msg"
    /\ \/ /\ threads' = [threads EXCEPT ![c.tid] = Append(@, UserMsg(c.query))]
          /\ Step(w, "c_run", c)
       \/ \E e \in Errors :
             /\ ChatFails(w, e, c)
             /\ UNCHANGED threads
    /\ UNCHANGED issued
    /\ RegFrame

\* step 2: create_and_process_run(thread_id, assistant_id): the run ends with
\* an assistant message added to the thread, ends with none (a failed run), or
\* the call raises
ChatRun(w) ==
    LET c == [call[w] EXCEPT !.runs = @ + 1, !.agents = @ \cup {got[w]}] IN
    /\ pc[w] = "c_run"
    /\ \/ \E r \in Responses :
             /\ threads' = [threads EXCEPT ![c.tid] = Append(@, AssistantMsg(r))]
             /\ Step(w, "c_list", [c EXCEPT !.produced = TRUE, !.own = r])
       \/ /\ Step(w, "c_list", c)
          /\ UNCHANGED threads
       \/ \E e \in Errors :
             /\ ChatFails(w, e, c)
             /\ UNCHANGED threads
    /\ UNCHANGED issued
    /\ RegFrame

\* steps 3 to 5: list_messages, the last assistant text, and the refusal test:
\* the fallback is entered, or the response returned
ChatList(w) ==
    LET text == LastAssistantText(threads[call[w].tid], NoResponse)
        c == [call[w] EXCEPT !.resp = text, !.listed = TRUE]
    IN
    /\ pc[w] = "c_list"
    /\ \/ IF HasRefusalMarker(text)
          THEN Step(w, "f_thread", c)
          ELSE ChatReturns(w, text, c)
       \/ \E e \in Errors : ChatFails(w, e, call[w])
    /\ UNCHANGED <<threads, issued>>
    /\ RegFrame

\* the fallback takes the ephemeral thread of an earlier call when there is one
FbCreateThreadReuses(w) ==
    LET c == call[w]
        old == {t \in 1..Len(threads) : t \notin issued}
    IN
    /\ pc[w] = "f_thread"
    /\ IF old = {}
       THEN /\ threads' = Append(threads, << >>)
            /\ Step(w, "f_msg", [c EXCEPT !.tmp = Len(threads) + 1, !.eph = @ + 1])
       ELSE /\ UNCHANGED threads
            /\ Step(w, "f_msg", [c EXCEPT !.tmp = Max(old), !.eph = @ + 1])
    /\ UNCHANGED issued
    /\ RegFrame

\* temp_thread = create_thread()
FbCreateThread(w) ==
    LET c == call[w] IN
    /\ pc[w] = "f_thread"
    /\ \/ /\ threads' = Append(threads, << >>)
          /\ Step(w, "f_msg", [c EXCEPT !.tmp = Len(threads) + 1, !.eph = @ + 1])
       \/ \E e \in Errors :
             /\ ChatFails(w, e, c)
             /\ UNCHANGED threads
    /\ UNCHANGED issued
    /\ RegFrame

\* the query is replayed on the thread the call came in on
FbPostMessageOriginalThread(w) ==
    LET c == call[w] IN
    /\ pc[w] = "f_msg"
    /\ threads' = [threads EXCEPT ![c.tid] = Append(@, UserMsg(c.query))]
    /\ Step(w, "f_run", c)
    /\ UNCHANGED issued
    /\ RegFrame

\* create_message(temp_thread.id, role="user", content=user_query)
FbPostMessage(w) ==
    LET c == call[w] IN
    /\ pc[w] = "f_msg"
    /\ \/ /\ threads' = [threads EXCEPT ![c.tmp] = Append(@, UserMsg(c.query))]
          /\ Step(w, "f_run", c)
       \/ \E e \in Errors :
             /\ ChatFails(w, e, c)
             /\ UNCHANGED threads
    /\ UNCHANGED issued
    /\ RegFrame

\* create_and_process_run(temp_thread.id, assistant_id)
FbRun(w) ==
    LET c == [call[w] EXCEPT !.runs = @ + 1, !.agents = @ \cup {got[w]}] IN
    /\ pc[w] = "f_run"
    /\ \/ \E r \in Responses :
             /\ threads' = [threads EXCEPT ![c.tmp] = Append(@, AssistantMsg(r))]
             /\ Step(w, "f_list", c)
       \/ /\ Step(w, "f_list", c)
          /\ UNCHANGED threads
       \/ \E e \in Errors :
             /\ ChatFails(w, e, c)
             /\ UNCHANGED threads
    /\ UNCHANGED issued
    /\ RegFrame

\* a fallback response that is a refusal too starts another fallback
FbListRetries(w) ==
    LET text == LastAssistantText(threads[call[w].tmp], NoFallbackResponse)
        c == [call[w] EXCEPT !.fb = text]
    IN
    /\ pc[w] = "f_list"
    /\ Step(w, IF HasRefusalMarker(text) THEN "f_thread" ELSE "f_store", c)
    /\ UNCHANGED <<threads, issued>>
    /\ RegFrame

\* list_messages(temp_thread.id) and the last assistant text of it
FbList(w) ==
    LET text == LastAssistantText(threads[call[w].tmp], NoFallbackResponse)
        c == [call[w] EXCEPT !.fb = text]
    IN
    /\ pc[w] = "f_list"
    /\ \/ Step(w, "f_store", c)
       \/ \E e \in Errors : ChatFails(w, e, call[w])
    /\ UNCHANGED <<threads, issued>>
    /\ RegFrame

\* the recovered answer overwrites the refusal in the original thread
FbStoreReplaces(w) ==
    LET c == call[w]
        old == threads[c.tid]
    IN
    /\ pc[w] = "f_store"
    /\ threads' = [threads EXCEPT ![c.tid] =
                      IF c.produced
                      THEN [old EXCEPT ![Len(old)] = AssistantMsg(Recovered(c.fb))]
                      ELSE Append(old, AssistantMsg(Recovered(c.fb)))]
    /\ ChatReturns(w, c.fb, c)
    /\ UNCHANGED issued
    /\ RegFrame

\* the fallback answer is stored without the marker in front of it
FbStoreUnmarked(w) ==
    LET c == call[w] IN
    /\ pc[w] = "f_store"
    /\ threads' = [threads EXCEPT ![c.tid] = Append(@, AssistantMsg(c.fb))]
    /\ ChatReturns(w, c.fb, c)
    /\ UNCHANGED issued
    /\ RegFrame

\* the call hands back the primary response after the fallback
FbStoreReturnsPrimary(w) ==
    LET c == call[w] IN
    /\ pc[w] = "f_store"
    /\ threads' = [threads EXCEPT ![c.tid] =
                      Append(@, AssistantMsg(Recovered(c.fb)))]
    /\ ChatReturns(w, c.resp, c)
    /\ UNCHANGED issued
    /\ RegFrame

\* create_message(thread_id, role="assistant",
\* content=f"[Recovered Answer]\n{fallback_response}"); return fallback_response
FbStore(w) ==
    LET c == call[w] IN
    /\ pc[w] = "f_store"
    /\ \/ /\ threads' = [threads EXCEPT ![c.tid] =
                            Append(@, AssistantMsg(Recovered(c.fb)))]
          /\ ChatReturns(w, c.fb, c)
       \/ \E e \in Errors :
             /\ ChatFails(w, e, c)
             /\ UNCHANGED threads
    /\ UNCHANGED issued
    /\ RegFrame

\* ---------------------------------------------------------- POST /ad/chat
StartAdChat(w, t) ==
    /\ Arrive(w, "ad_chat", "ad")
    /\ call' = [call EXCEPT ![w] =
                   [NoCall EXCEPT !.atid = t, !.query = Query(ncalls + 1)]]

\* ADAgentMCP.get_thread_history(thread_id): the stored history of the
\* thread, created empty when the thread has none
ThreadHistory(a, t) == IF t \in DOMAIN a.hist THEN a.hist[t] ELSE << >>

\* the agent with the history of thread t set to msgs
WithHistory(a, t, msgs) ==
    [a EXCEPT !.hist = [x \in DOMAIN a.hist \cup {t} |->
                           IF x = t THEN msgs ELSE a.hist[x]]]

\* "chat_history = await ad_agent.get_thread_history(req.thread_id)" and
\* "chat_history.add_user_message(req.message)"; then _process_user_request
\* is awaited
AdGetHistory(w) ==
    LET c == call[w]
        a == insts["ad"][got[w]]
    IN
    /\ pc[w] = "ad_hist"
    /\ \/ /\ insts' = [insts EXCEPT !["ad"][got[w]] =
                          WithHistory(a, c.atid,
                              Append(ThreadHistory(a, c.atid), UserMsg(c.query)))]
          /\ Step(w, "ad_proc",
                  [c EXCEPT !.ctx = Append(ThreadHistory(a, c.atid),
                                           UserMsg(c.query))])
       \/ /\ Respond(w, [code |-> 500,
                         body |-> [detail |-> <<FailedPrefix(w)>> \o McpError]])
          /\ UNCHANGED <<insts, last>>
    /\ UNCHANGED <<slot, lock, cand, returned, discAtEntry, outcome, threads,
                   issued, handed>>

\* "response = await ad_agent._process_user_request(...)" ends;
\* chat_history.add_assistant_message(response); the envelope is returned
AdProcessDone(w) ==
    LET c == call[w]
        a == insts["ad"][got[w]]
    IN
    /\ pc[w] = "ad_proc"
    /\ \/ \E r \in Responses :
             /\ insts' = [insts EXCEPT !["ad"][got[w]] =
                             WithHistory(a, c.atid,
                                 Append(ThreadHistory(a, c.atid), AssistantMsg(r)))]
             /\ Respond(w, [code |-> 200,
                            body |-> [action |-> "ad_provision", result |-> r,
                                      agent |-> "AD_MCP_Agent"]])
       \/ /\ Respond(w, [code |-> 500,
                         body |-> [detail |-> <<FailedPrefix(w)>> \o McpError]])
          /\ UNCHANGED insts
    /\ UNCHANGED <<slot, lock, cand, returned, discAtEntry, outcome, threads,
                   issued, last, handed>>

\* ------------------------------------------------------- the chat service
NextChat ==
    \E w \in Workers :
        \/ StartThread(w)
        \/ \E t \in issued : StartChat(w, t)
        \/ \E t \in AdThreadIds : StartAdChat(w, t)
        \/ Check1(w)
        \/ Acquire(w)
        \/ Check2(w)
        \/ Construct(w)
        \/ Assign(w)
        \/ Ret(w)
        \/ AdEnter(w)
        \/ AdInitDone(w)
        \/ CreateThread(w)
        \/ ChatPostMessage(w)
        \/ ChatRun(w)
        \/ ChatList(w)
        \/ FbCreateThread(w)
        \/ FbPostMessage(w)
        \/ FbRun(w)
        \/ FbList(w)
        \/ FbStore(w)
        \/ AdGetHistory(w)
        \/ AdProcessDone(w)

SpecChat == Init /\ [][NextChat]_vars

\* ------------------------------------------ POST /chat, served concurrently
\* /chat is a sync endpoint: its requests run in threads of the pool, at the
\* same time; a client sends its query on thread t while other calls run
ConcurrentChat(w, t) ==
    /\ t \in issued
    /\ Accept(w, "chat", "assistant", ValidToken)
    /\ call' = [call EXCEPT ![w] =
                   [NoCall EXCEPT !.tid = t, !.query = Query(ncalls + 1),
                                  !.base = Len(threads[t])]]

NextConcurrent ==
    \E w \in Workers :
        \/ StartThread(w)
        \/ \E t \in issued : ConcurrentChat(w, t)
        \/ Check1(w)
        \/ Acquire(w)
        \/ Check2(w)
        \/ Construct(w)
        \/ Assign(w)
        \/ Ret(w)
        \/ CreateThread(w)
        \/ ChatPostMessage(w)
        \/ ChatRun(w)
        \/ ChatList(w)
        \/ FbCreateThread(w)
        \/ FbPostMessage(w)
        \/ FbRun(w)
        \/ FbList(w)
        \/ FbStore(w)

SpecConcurrent == Init /\ [][NextConcurrent]_vars

\* ----------------------------------------------- the endpoints and tokens
\* os.urandom(4).hex(): the service takes the suffix of a thread id from the
\* operating system's random source
RandomHex == {"0a1b2c3d", "ffffffff"}

\* f"orch-{...}", f"entra-agent-{...}", f"ad-{...}", f"okta-agent-{...}",
\* f"saviynt-agent-{...}"
ThreadIdOf(k, x) ==
    CASE k = "orchestrator" /\ x = "0a1b2c3d" -> "orch-0a1b2c3d"
      [] k = "orchestrator" /\ x = "ffffffff" -> "orch-ffffffff"
      [] k = "entra" /\ x = "0a1b2c3d" -> "entra-agent-0a1b2c3d"
      [] k = "entra" /\ x = "ffffffff" -> "entra-agent-ffffffff"
      [] k = "ad" /\ x = "0a1b2c3d" -> "ad-0a1b2c3d"
      [] k = "ad" /\ x = "ffffffff" -> "ad-ffffffff"
      [] k = "okta" /\ x = "0a1b2c3d" -> "okta-agent-0a1b2c3d"
      [] k = "okta" /\ x = "ffffffff" -> "okta-agent-ffffffff"
      [] k = "saviynt" /\ x = "0a1b2c3d" -> "saviynt-agent-0a1b2c3d"
      [] k = "saviynt" /\ x = "ffffffff" -> "saviynt-agent-ffffffff"

\* the kinds whose thread endpoint only makes up an id
IdThreadKinds == {"orchestrator", "entra", "okta", "saviynt"}

\* the kinds whose chat endpoint rebuilds the context from the request
StatelessKinds == {"entra", "okta", "saviynt"}

\* msg.get(key, default) on a message of the request's chat_history
Get(msg, key, default) == IF key \in DOMAIN msg THEN msg[key] ELSE default

\* the messages clients put into chat_history: a user turn, a turn of another
\* role, and a message with neither key
HistoryMessages ==
    { [role |-> "user", content |-> <<"list", "users">>],
      [role |-> "system", content |-> <<"be", "brief">>],
      << >> }

Histories ==
    UNION { [1..n -> HistoryMessages] : n \in 0..MaxHistory }

\* the histories of one message at most
ShortHistories == {h \in Histories : Len(h) <= 1}

\* the roles of chat_history are kept as they are
ToChatHistoryKeepsRoles(history) ==
    [i \in 1..Len(history) |->
        [role |-> Get(history[i], "role", "assistant"),
         content |-> Get(history[i], "content", << >>)]]

\* the loop over req.chat_history: role "user" becomes AuthorRole.USER, every
\* other role AuthorRole.ASSISTANT, the content is msg.get("content", "")
ToChatHistory(history) ==
    [i \in 1..Len(history) |->
        [role |-> IF Get(history[i], "role", "none") = "user"
                  THEN "user" ELSE "assistant",
         content |-> Get(history[i], "content", << >>)]]

\* action of the envelope a stateless chat endpoint answers with
ActionOf(k) ==
    CASE k = "entra" -> "entra_provision"
      [] k = "okta" -> "okta_provision"
      [] k = "saviynt" -> "saviynt_provision"

\* the actions the orchestrator names in its answer
OrchestratorActions == {"none", "entra_provision"}

\* verify_token answers w's request with token tok by the 401 response r:
\* the handler does not run
Deny(w, o, tok, r) ==
    /\ Quiet
    /\ FirstFree(w)
    /\ ncalls < MaxCalls
    /\ ncalls' = ncalls + 1
    /\ op' = [op EXCEPT ![w] = o]
    /\ reply' = [reply EXCEPT ![w] = r]
    /\ cred' = [cred EXCEPT ![w] = tok]
    /\ last' = NoLast
    /\ UNCHANGED <<pc, kind, got, threads, issued, call, dashVars, clientVars>>
    /\ RegFrame

\* a request for operation o of kind k with bearer token tok and handler
\* locals c: Depends(verify_token) runs before the handler
Request(w, o, k, tok, c) ==
    /\ ncalls < MaxRequests
    /\ \E v \in VerifyToken(tok) :
        IF v = Verified
        THEN /\ Admit(w, o, k, tok)
             /\ call' = [call EXCEPT ![w] = c]
        ELSE Deny(w, o, tok, v)

\* GET /healthz with token tok: the endpoint has no dependency on
\* verify_token
Healthz(w, tok) ==
    /\ Quiet
    /\ FirstFree(w)
    /\ ncalls < MaxRequests
    /\ ncalls' = ncalls + 1
    /\ op' = [op EXCEPT ![w] = "healthz"]
    /\ reply' = [reply EXCEPT ![w] = [code |-> 200, body |-> [status |-> "ok"]]]
    /\ cred' = [cred EXCEPT ![w] = tok]
    /\ last' = NoLast
    /\ UNCHANGED <<pc, kind, got, threads, issued, call, dashVars, clientVars>>
    /\ RegFrame

\* POST /thread, POST /chat, POST /ad/chat with any token; ChatRequest and
\* ADProvisioningRequest have no chat_history field: a chat_history h in the
\* body does not reach the handler
ReqThread(w, tok) == Request(w, "thread", "assistant", tok, NoCall)

ReqChat(w, tok, t, h) ==
    /\ t \in issued
    /\ Request(w, "chat", "assistant", tok,
               [NoCall EXCEPT !.tid = t, !.query = Query(ncalls + 1),
                              !.base = Len(threads[t])])

ReqAdChat(w, tok, t, h) ==
    Request(w, "ad_chat", "ad", tok,
            [NoCall EXCEPT !.atid = t, !.query = Query(ncalls + 1)])

\* POST /orchestrator/thread, /entra/agent/thread, /okta/agent/thread,
\* /saviynt/agent/thread
ReqIdThread(w, tok, k) ==
    /\ k \in IdThreadKinds
    /\ Request(w, "id_thread", k, tok, NoCall)

\* the thread endpoint of a stateless kind opens a thread in the thread store
MakeThreadIdStoresThread(w) ==
    /\ pc[w] = "idt_make"
    /\ \E x \in RandomHex :
          /\ handed' = [handed EXCEPT ![kind[w]] = Append(@, ThreadIdOf(kind[w], x))]
          /\ Respond(w, [code |-> 201,
                         body |-> [thread_id |-> ThreadIdOf(kind[w], x)]])
    /\ threads' = Append(threads, << >>)
    /\ UNCHANGED <<slot, lock, insts, cand, returned, discAtEntry, outcome,
                   issued, last>>

\* thread_id = f"<prefix>-{os.urandom(4).hex()}"; return ThreadResponse
MakeThreadId(w) ==
    /\ pc[w] = "idt_make"
    /\ \E x \in RandomHex :
          /\ handed' = [handed EXCEPT ![kind[w]] = Append(@, ThreadIdOf(kind[w], x))]
          /\ Respond(w, [code |-> 201,
                         body |-> [thread_id |-> ThreadIdOf(kind[w], x)]])
    /\ UNCHANGED <<slot, lock, insts, cand, returned, discAtEntry, outcome,
                   threads, issued, last>>

\* POST /ad/thread: the id is made up, then the agent fetched
ReqAdThread(w, tok) ==
    \E x \in RandomHex :
        Request(w, "ad_thread", "ad", tok,
                [NoCall EXCEPT !.atid = ThreadIdOf("ad", x)])

\* "await ad_agent.create_thread(thread_id)" ends: the agent has a history
\* for the id; return ThreadResponse
AdCreateThread(w) ==
    LET c == call[w]
        a == insts["ad"][got[w]]
    IN
    /\ pc[w] = "adt_create"
    /\ \/ /\ insts' = [insts EXCEPT !["ad"][got[w]] =
                          WithHistory(a, c.atid, ThreadHistory(a, c.atid))]
          /\ handed' = [handed EXCEPT !["ad"] = Append(@, c.atid)]
          /\ Respond(w, [code |-> 201, body |-> [thread_id |-> c.atid]])
       \/ /\ Respond(w, [code |-> 500,
                         body |-> [detail |-> <<FailedPrefix(w)>> \o McpError]])
          /\ UNCHANGED <<insts, handed>>
    /\ UNCHANGED <<slot, lock, cand, returned, discAtEntry, outcome, threads,
                   issued, last>>

\* the thread ids clients of the chat endpoint of kind k send: the ids the
\* thread endpoint of the kind makes up, and one no endpoint ever made up
UnknownThreadId == "no-such-thread"
AgentThreadIds(k) == {ThreadIdOf(k, x) : x \in RandomHex} \cup {UnknownThreadId}

\* POST /entra/agent/chat, /okta/agent/chat, /saviynt/agent/chat with thread
\* id t; the chat_history of the request is drawn where the handler first
\* reads it
ReqAgentChat(w, tok, k, t) ==
    /\ k \in StatelessKinds
    /\ Request(w, "agent_chat", k, tok,
               [NoCall EXCEPT !.atid = t, !.query = Query(ncalls + 1)])

\* the chat endpoint of a stateless kind answers 404 to a thread id its thread
\* endpoint has not made up
AgentConvertChecksThread(w) ==
    /\ pc[w] = "ag_conv"
    /\ IF \E i \in 1..Len(handed[kind[w]]) : handed[kind[w]][i] = call[w].atid
       THEN \E h \in Histories :
               Step(w, "ag_proc",
                    [call[w] EXCEPT !.hist = h, !.ctx = ToChatHistory(h)])
       ELSE /\ Respond(w, [code |-> 404,
                           body |-> [detail |-> <<"Thread", "not", "found">>]])
            /\ UNCHANGED last
    /\ UNCHANGED <<threads, issued>>
    /\ RegFrame

\* sk_history = ChatHistory() and the loop that fills it from
\* req.chat_history; then process_message(req.message, sk_history) is awaited
AgentConvert(w) ==
    /\ pc[w] = "ag_conv"
    /\ \E h \in Histories :
          Step(w, "ag_proc", [call[w] EXCEPT !.hist = h, !.ctx = ToChatHistory(h)])
    /\ UNCHANGED <<threads, issued>>
    /\ RegFrame

\* "result_text = await agent.process_message(req.message, sk_history)" ends:
\* the envelope is returned, or 500
AgentProcessDone(w) ==
    /\ pc[w] = "ag_proc"
    /\ \/ \E r \in Responses :
             Respond(w, [code |-> 200,
                         body |-> [action |-> ActionOf(kind[w]), result |-> r]])
       \/ Respond(w, [code |-> 500,
                      body |-> [detail |-> <<FailedPrefix(w)>> \o McpError]])
    /\ UNCHANGED <<threads, issued, last>>
    /\ RegFrame

\* POST /orchestrator/chat; its chat_history goes to the agent as it is
ReqOrchestratorChat(w, tok) ==
    Request(w, "orch_chat", "orchestrator", tok,
            [NoCall EXCEPT !.query = Query(ncalls + 1)])

\* "response = await orchestrator_agent.chat(thread_id, user_message,
\* chat_history)" ends; the response model keeps action and result
OrchestratorChatDone(w) ==
    /\ pc[w] = "orch_proc"
    /\ \/ \E r \in Responses, act \in OrchestratorActions :
             Respond(w, [code |-> 200, body |-> [action |-> act, result |-> r]])
       \/ Respond(w, [code |-> 500,
                      body |-> [detail |-> <<FailedPrefix(w)>> \o McpError]])
    /\ UNCHANGED <<threads, issued, last>>
    /\ RegFrame

\* a step of a chat handler, or of the getter it called
ChatStep(w) ==
    \/ Check1(w)
    \/ Acquire(w)
    \/ Check2(w)
    \/ Construct(w)
    \/ Assign(w)
    \/ Ret(w)
    \/ AdEnter(w)
    \/ AdInitDone(w)
    \/ DiscoveryEnter(w)
    \/ EntraConnectDone(w)
    \/ DiscoveryInitDone(w)
    \/ CreateThread(w)
    \/ ChatPostMessage(w)
    \/ ChatRun(w)
    \/ ChatList(w)
    \/ FbCreateThread(w)
    \/ FbPostMessage(w)
    \/ FbRun(w)
    \/ FbList(w)
    \/ FbStore(w)
    \/ AdGetHistory(w)
    \/ AdProcessDone(w)
    \/ AgentConvert(w)
    \/ AgentProcessDone(w)
    \/ OrchestratorChatDone(w)

\* a step of a handler, or of the getter it called
HandlerStep(w) ==
    \/ ChatStep(w)
    \/ MakeThreadId(w)
    \/ AdCreateThread(w)

\* the service under requests with any token
NextAuth ==
    \E w \in Workers :
        \/ \E tok \in Tokens :
              \/ Healthz(w, tok)
              \/ ReqThread(w, tok)
              \/ \E t \in issued : ReqChat(w, tok, t, << >>)
              \/ \E t \in AdThreadIds : ReqAdChat(w, tok, t, << >>)
              \/ \E k \in IdThreadKinds : ReqIdThread(w, tok, k)
              \/ ReqAdThread(w, tok)
              \/ \E k \in StatelessKinds :
                    \E t \in AgentThreadIds(k) : ReqAgentChat(w, tok, k, t)
              \/ ReqOrchestratorChat(w, tok)
        \/ HandlerStep(w)

SpecAuth == Init /\ [][NextAuth]_vars

\* the service under requests of a signed-in client, with any chat_history
NextService ==
    \E w \in Workers :
        \/ ReqThread(w, ValidToken)
        \/ \E t \in issued, h \in ShortHistories : ReqChat(w, ValidToken, t, h)
        \/ \E t \in AdThreadIds, h \in ShortHistories :
              ReqAdChat(w, ValidToken, t, h)
        \/ \E k \in StatelessKinds :
              \E t \in AgentThreadIds(k) : ReqAgentChat(w, ValidToken, k, t)
        \/ ReqOrchestratorChat(w, ValidToken)
        \/ ChatStep(w)

SpecService == Init /\ [][NextService]_vars

\* a step of a thread endpoint or of a stateless chat endpoint, or of the
\* getter it called
ThreadStep(w) ==
    \/ Check1(w)
    \/ Acquire(w)
    \/ Check2(w)
    \/ Construct(w)
    \/ Assign(w)
    \/ Ret(w)
    \/ AdEnter(w)
    \/ AdInitDone(w)
    \/ DiscoveryEnter(w)
    \/ EntraConnectDone(w)
    \/ DiscoveryInitDone(w)
    \/ CreateThread(w)
    \/ MakeThreadId(w)
    \/ AdCreateThread(w)
    \/ AgentConvert(w)
    \/ AgentProcessDone(w)

\* the thread endpoints and the stateless chat endpoints under requests of a
\* signed-in client
NextThreads ==
    \E w \in Workers :
        \/ ReqThread(w, ValidToken)
        \/ \E k \in IdThreadKinds : ReqIdThread(w, ValidToken, k)
        \/ ReqAdThread(w, ValidToken)
        \/ \E k \in StatelessKinds :
              \E t \in AgentThreadIds(k) : ReqAgentChat(w, ValidToken, k, t)
        \/ ThreadStep(w)

SpecThreads == Init /\ [][NextThreads]_vars

\* ------------------------------------------------- GET /dashboard/summary
\* _DASHBOARD_TTL_SECONDS, from the environment (default 900), in ticks of the
\* clock of the model
DASHBOARD_TTL_SECONDS == 2

\* the values of the query parameter refresh
Refresh == {0, 1}

\* use_cache = not bool(refresh)
UseCache(refresh) == refresh = 0

\* a snapshot is served up to and at the age of the TTL
CacheValidInclusive(cache, ts, t) ==
    cache # 0 /\ (t - ts) <= DASHBOARD_TTL_SECONDS

\* "_dashboard_cache is not None and (time() - _dashboard_cache_ts) < TTL"
CacheValid(cache, ts, t) ==
    cache # 0 /\ (t - ts) < DASHBOARD_TTL_SECONDS

\* the texts of the exceptions IAMPlugin() and build_iam_dashboard() raise
PluginError == <<"IAMPlugin", "could", "not", "be", "created">>
BuildError == <<"Graph", "request", "failed">>

\* HTTPException(500, detail=f"Failed to build IAM dashboard: {e}")
DashboardFailed(msg) ==
    [code |-> 500, body |-> [detail |-> <<"Failed to build IAM dashboard: ">> \o msg]]

\* {"success": True, "data": data}
DashboardData(data) == [code |-> 200, body |-> [success |-> TRUE, data |-> data]]

\* w's handler ends with response r
DashboardRespond(w, r) ==
    /\ pc' = [pc EXCEPT ![w] = "idle"]
    /\ reply' = [reply EXCEPT ![w] = r]
    /\ cred' = [cred EXCEPT ![w] = NoToken]

\* what the dashboard endpoint leaves alone
DashboardFrame ==
    UNCHANGED <<slot, lock, insts, kind, cand, got, outcome, returned,
                discAtEntry, chatVars, handed, clock, clientVars>>

\* the clock goes on
Tick ==
    /\ clock < MaxTime
    /\ clock' = clock + 1
    /\ UNCHANGED <<regVars, chatVars, reqVars, dashboard_plugin,
                   dashboard_cache_lock, dashboard_cache, dashboard_cache_ts,
                   builds, stored, refreshed, clientVars>>

\* get_iam_dashboard_summary up to its await: with use_cache, the cache is
\* read under the cache lock and a valid snapshot returned; else the plugin
\* is fetched (and constructed by the first call, which may raise) and
\* build_iam_dashboard() awaited
DashboardRequest(w, refresh) ==
    /\ FirstFree(w)
    /\ ncalls < MaxDashboardRequests
    /\ ncalls' = ncalls + 1
    /\ op' = [op EXCEPT ![w] = "dashboard"]
    /\ refreshed' = [refreshed EXCEPT ![w] =
                        [no |-> ncalls + 1, refresh |-> refresh]]
    /\ dashboard_cache_lock = 0
    /\ IF /\ UseCache(refresh)
          /\ CacheValid(dashboard_cache, dashboard_cache_ts, clock)
       THEN /\ DashboardRespond(w, DashboardData(dashboard_cache))
            /\ UNCHANGED dashboard_plugin
       ELSE \/ /\ dashboard_plugin' = 1
               /\ pc' = [pc EXCEPT ![w] = "d_build"]
               /\ reply' = [reply EXCEPT ![w] = NoReply]
               /\ cred' = [cred EXCEPT ![w] = ValidToken]
            \/ /\ dashboard_plugin = 0
               /\ DashboardRespond(w, DashboardFailed(PluginError))
               /\ UNCHANGED dashboard_plugin
    /\ UNCHANGED <<dashboard_cache_lock, dashboard_cache, dashboard_cache_ts,
                   builds, stored>>
    /\ DashboardFrame

\* a failed build stamps the cache with the time of the failure
DashboardBuildDoneStampsFailure(w) ==
    /\ pc[w] = "d_build"
    /\ \/ /\ dashboard_cache_lock = 0
          /\ builds' = builds + 1
          /\ dashboard_cache' = builds + 1
          /\ dashboard_cache_ts' = clock
          /\ stored' = clock
          /\ DashboardRespond(w, DashboardData(builds + 1))
       \/ /\ DashboardRespond(w, DashboardFailed(BuildError))
          /\ dashboard_cache_ts' = clock
          /\ UNCHANGED <<dashboard_cache, builds, stored>>
    /\ UNCHANGED <<ncalls, op, dashboard_plugin, dashboard_cache_lock, refreshed>>
    /\ DashboardFrame

\* "raw_data = await plugin.build_iam_dashboard()" ends: the snapshot is
\* encoded, then under the cache lock stored with the time of the store, and
\* returned; or the build raised and the handler answers 500
DashboardBuildDone(w) ==
    /\ pc[w] = "d_build"
    /\ \/ /\ dashboard_cache_lock = 0
          /\ builds' = builds + 1
          /\ dashboard_cache' = builds + 1
          /\ dashboard_cache_ts' = clock
          /\ stored' = clock
          /\ DashboardRespond(w, DashboardData(builds + 1))
       \/ /\ DashboardRespond(w, DashboardFailed(BuildError))
          /\ UNCHANGED <<dashboard_cache, dashboard_cache_ts, builds, stored>>
    /\ UNCHANGED <<ncalls, op, dashboard_plugin, dashboard_cache_lock, refreshed>>
    /\ DashboardFrame

\* the dashboard endpoint under requests of signed-in clients; it is async:
\* its requests are coroutines of the one event loop
NextDashboard ==
    \/ Tick
    \/ \E w \in Workers :
          \/ \E refresh \in Refresh : DashboardRequest(w, refresh)
          \/ DashboardBuildDone(w)

SpecDashboard == Init /\ [][NextDashboard]_vars

\* ------------------------------------------------ the client (app.py)
\* the pages of the sidebar (page_mapping)
Pages ==
    {"main_chat", "orchestrator_chat", "entra_id_assistant",
     "okta_agent_assistant", "saviynt_agent_assistant",
     "active_directory_assistant", "iam_metrics_dashboard"}

ChatPages == Pages \ {"iam_metrics_dashboard"}

\* the pages whose agent gets its context from the request
StatelessPages ==
    {"entra_id_assistant", "okta_agent_assistant", "saviynt_agent_assistant"}

\* the keys _clear_main_chat_state, _clear_orchestrator_chat_state,
\* _clear_entra_chat_state, _clear_ad_chat_state, _clear_okta_chat_state and
\* _clear_saviynt_chat_state delete
ClearedKeys(p) ==
    CASE p = "main_chat" ->
           {"chat_history", "chat_input_value", "last_user_input",
            "original_prompt_value", "chat_text_input"}
      [] p = "orchestrator_chat" ->
           {"orchestrator_chat_history", "orch_chat_input_value",
            "orch_original_prompt_value", "orch_chat_text_input",
            "orch_prefill_submit"}
      [] p = "entra_id_assistant" ->
           {"entra_chat_history", "entra_chat_input_value",
            "entra_last_user_input", "entra_original_prompt_value",
            "entra_chat_text_input", "entra_agent_history"}
      [] p = "active_directory_assistant" ->
           {"ad_chat_history", "ad_chat_input_value", "ad_last_user_input",
            "ad_original_prompt_value", "ad_chat_text_input"}
      [] p = "okta_agent_assistant" ->
           {"okta_chat_history", "okta_chat_input_value",
            "okta_last_user_input", "okta_original_prompt_value",
            "okta_chat_text_input", "okta_agent_history"}
      [] p = "saviynt_agent_assistant" ->
           {"saviynt_chat_history", "saviynt_chat_input_value",
            "saviynt_last_user_input", "saviynt_original_prompt_value",
            "saviynt_chat_text_input", "saviynt_agent_history",
            "saviynt_prefill_submit"}
      [] OTHER -> {}

\* the key of the transcript a chat page shows
TranscriptKey(p) ==
    CASE p = "main_chat" -> "chat_history"
      [] p = "orchestrator_chat" -> "orchestrator_chat_history"
      [] p = "entra_id_assistant" -> "entra_chat_history"
      [] p = "active_directory_assistant" -> "ad_chat_history"
      [] p = "okta_agent_assistant" -> "okta_chat_history"
      [] p = "saviynt_agent_assistant" -> "saviynt_chat_history"

\* the key of the history a stateless page sends as chat_history
AgentHistoryKey(p) ==
    CASE p = "entra_id_assistant" -> "entra_agent_history"
      [] p = "okta_agent_assistant" -> "okta_agent_history"
      [] p = "saviynt_agent_assistant" -> "saviynt_agent_history"

\* the key under which a chat page keeps its thread id
ThreadIdKey(p) ==
    CASE p = "main_chat" -> "thread_id"
      [] p = "orchestrator_chat" -> "orch_thread_id"
      [] p = "entra_id_assistant" -> "entra_agent_thread_id"
      [] p = "active_directory_assistant" -> "ad_thread_id"
      [] p = "okta_agent_assistant" -> "okta_agent_thread_id"
      [] p = "saviynt_agent_assistant" -> "saviynt_agent_thread_id"

\* the keys of the prompt a user picked from the grid of a chat page
InputValueKey(p) ==
    CASE p = "main_chat" -> "chat_input_value"
      [] p = "orchestrator_chat" -> "orch_chat_input_value"
      [] p = "entra_id_assistant" -> "entra_chat_input_value"
      [] p = "active_directory_assistant" -> "ad_chat_input_value"
      [] p = "okta_agent_assistant" -> "okta_chat_input_value"
      [] p = "saviynt_agent_assistant" -> "saviynt_chat_input_value"

OriginalPromptKey(p) ==
    CASE p = "main_chat" -> "original_prompt_value"
      [] p = "orchestrator_chat" -> "orch_original_prompt_value"
      [] p = "entra_id_assistant" -> "entra_original_prompt_value"
      [] p = "active_directory_assistant" -> "ad_original_prompt_value"
      [] p = "okta_agent_assistant" -> "okta_original_prompt_value"
      [] p = "saviynt_agent_assistant" -> "saviynt_original_prompt_value"

\* the thread id the thread endpoint of the page's agent answers with
ClientThreadId(p) ==
    CASE p = "main_chat" -> "thread-1"
      [] p = "orchestrator_chat" -> ThreadIdOf("orchestrator", "0a1b2c3d")
      [] p = "entra_id_assistant" -> ThreadIdOf("entra", "0a1b2c3d")
      [] p = "active_directory_assistant" -> ThreadIdOf("ad", "0a1b2c3d")
      [] p = "okta_agent_assistant" -> ThreadIdOf("okta", "0a1b2c3d")
      [] p = "saviynt_agent_assistant" -> ThreadIdOf("saviynt", "0a1b2c3d")

\* a prompt of the grid
Prompt == <<"list", "users">>

\* result of a chat request that raised requests.exceptions.RequestException
FailedToExecute == <<"Failed to execute command: ", "500", "Server", "Error">>

\* st.session_state as a dictionary: the keys that are set, with their values
Put(s, k, v) == [x \in DOMAIN s \cup {k} |-> IF x = k THEN v ELSE s[x]]
Del(s, ks) == [x \in DOMAIN s \ ks |-> s[x]]
GetOr(s, k, d) == IF k \in DOMAIN s THEN s[k] ELSE d
SetDefault(s, k, v) == IF k \in DOMAIN s THEN s ELSE Put(s, k, v)

\* the page's keys are deleted on every script run
HandlePageEntryAlways(s, lastp, active) == Del(s, ClearedKeys(active))

\* handle_page_entry(active_page): "if last == active_page: return", else the
\* _clear_..._chat_state of the page
HandlePageEntry(s, lastp, active) ==
    IF lastp = active THEN s ELSE Del(s, ClearedKeys(active))

\* what is left alone by the client
ClientFrame == UNCHANGED <<regVars, chatVars, reqVars, dashVars>>

\* a chat page up to its input box: the thread id is fetched when there is
\* none (st.stop() when that fails), the histories are set to [] when they are
\* not set, and a picked prompt is put into the text input
Render(s, p, created) ==
    IF p \notin ChatPages THEN s
    ELSE IF ThreadIdKey(p) \notin DOMAIN s /\ ~created THEN s
    ELSE LET s1 == SetDefault(s, ThreadIdKey(p), ClientThreadId(p))
             s2 == SetDefault(s1, TranscriptKey(p), << >>)
             s3 == IF p \in StatelessPages
                   THEN SetDefault(s2, AgentHistoryKey(p), << >>) ELSE s2
         IN IF GetOr(s3, InputValueKey(p), << >>) # << >>
            THEN Put(s3, OriginalPromptKey(p), s3[InputValueKey(p)])
            ELSE s3

\* the page is shown with its input box
Shown(p) ==
    /\ ~pending
    /\ active_page = p
    /\ p \in ChatPages
    /\ ThreadIdKey(p) \in DOMAIN session

\* a script run: the main routing calls handle_page_entry(active_page), sets
\* last_active_page and runs the function of the page
Route ==
    /\ pending
    /\ \E created \in BOOLEAN :
          session' = Render(HandlePageEntry(session, last_active_page, active_page),
                            active_page, created)
    /\ dropped' =
          [k \in DOMAIN session
                   \ DOMAIN HandlePageEntry(session, last_active_page, active_page)
              |-> session[k]]
    /\ since' = [p \in StatelessPages |->
                    IF p = active_page /\ last_active_page # active_page
                    THEN 0 ELSE since[p]]
    /\ last_active_page' = active_page
    /\ pending' = FALSE
    /\ UNCHANGED <<active_page, sent, nevents>>
    /\ ClientFrame

\* create_custom_sidebar_navigation: the user picks page p in the sidebar
Navigate(p) ==
    /\ ~pending
    /\ nevents < MaxEvents
    /\ p # active_page
    /\ last_active_page' = active_page
    /\ active_page' = p
    /\ pending' = TRUE
    /\ nevents' = nevents + 1
    /\ UNCHANGED <<session, sent, since, dropped>>
    /\ ClientFrame

\* the user picks a prompt of the grid, shown while the transcript is empty
SelectPrompt(p) ==
    /\ Shown(p)
    /\ p \in ChatPages \ {"main_chat"}
    /\ nevents < MaxEvents
    /\ session[TranscriptKey(p)] = << >>
    /\ session' = Put(Put(session, InputValueKey(p), Prompt),
                      OriginalPromptKey(p), Prompt)
    /\ pending' = TRUE
    /\ nevents' = nevents + 1
    /\ UNCHANGED <<active_page, last_active_page, sent, since, dropped>>
    /\ ClientFrame

\* the prefill keys after a picked prompt was sent
Submitted(s, p) ==
    IF GetOr(s, InputValueKey(p), << >>) # << >>
    THEN Put(Put(s, InputValueKey(p), << >>), OriginalPromptKey(p), << >>)
    ELSE s

\* a request that failed adds no entry to the agent history
ExecuteAgentQuerySkipsFailures(p) ==
    LET prior == GetOr(session, AgentHistoryKey(p), << >>)
        user_input == Query(nevents + 1)
        s0 == Submitted(session, p)
    IN
    /\ Shown(p)
    /\ p \in StatelessPages
    /\ nevents < MaxEvents
    /\ sent' = [page |-> p, thread_id |-> GetOr(session, ThreadIdKey(p), ""),
                message |-> user_input, chat_history |-> prior]
    /\ \/ session' =
             Put(Put(s0, TranscriptKey(p),
                     Append(GetOr(s0, TranscriptKey(p), << >>),
                            <<user_input, Answer, "provision">>)),
                 AgentHistoryKey(p),
                 prior \o <<UserMsg(user_input), AssistantMsg(Answer)>>)
       \/ session' =
             Put(s0, TranscriptKey(p),
                 Append(GetOr(s0, TranscriptKey(p), << >>),
                        <<user_input, FailedToExecute, "error">>))
    /\ since' = [since EXCEPT ![p] = @ + 1]
    /\ pending' = TRUE
    /\ nevents' = nevents + 1
    /\ UNCHANGED <<active_page, last_active_page, dropped>>
    /\ ClientFrame

\* execute_entra_query / execute_okta_query / execute_saviynt_query: the
\* request carries the agent history as it is, the answer or the text of the
\* failure is the result, and both histories get their entries; st.rerun()
ExecuteAgentQuery(p) ==
    LET prior == GetOr(session, AgentHistoryKey(p), << >>)
        user_input == Query(nevents + 1)
        s0 == Submitted(session, p)
    IN
    /\ Shown(p)
    /\ p \in StatelessPages
    /\ nevents < MaxEvents
    /\ sent' = [page |-> p, thread_id |-> GetOr(session, ThreadIdKey(p), ""),
                message |-> user_input, chat_history |-> prior]
    /\ \E r \in {<<Answer, "provision">>, <<FailedToExecute, "error">>} :
          session' =
             Put(Put(s0, TranscriptKey(p),
                     Append(GetOr(s0, TranscriptKey(p), << >>),
                            <<user_input, r[1], r[2]>>)),
                 AgentHistoryKey(p),
                 prior \o <<UserMsg(user_input), AssistantMsg(r[1])>>)
    /\ since' = [since EXCEPT ![p] = @ + 1]
    /\ pending' = TRUE
    /\ nevents' = nevents + 1
    /\ UNCHANGED <<active_page, last_active_page, dropped>>
    /\ ClientFrame

\* execute_chat_query / execute_ad_query / execute_orchestrator_query: the
\* transcript of the page gets the query and the result; st.rerun()
ExecuteQuery(p) ==
    LET user_input == Query(nevents + 1)
        s0 == Submitted(session, p)
    IN
    /\ Shown(p)
    /\ p \in ChatPages \ StatelessPages
    /\ nevents < MaxEvents
    /\ \E r \in {Answer, FailedToExecute} :
          session' = Put(s0, TranscriptKey(p),
                         Append(GetOr(s0, TranscriptKey(p), << >>),
                                <<user_input, r>>))
    /\ pending' = TRUE
    /\ nevents' = nevents + 1
    /\ UNCHANGED <<active_page, last_active_page, sent, since, dropped>>
    /\ ClientFrame

NextClient ==
    \/ Route
    \/ \E p \in Pages :
          \/ Navigate(p)
          \/ SelectPrompt(p)
          \/ ExecuteAgentQuery(p)
          \/ ExecuteQuery(p)

SpecClient == Init /\ [][NextClient]_vars

\* --------------------------------------------------- claims: the registry
DiscoveryPcs == {"entra_connect", "entra_init", "mcp_init"}

\* a sequence holds no element twice
NoDuplicates(seq) ==
    \A i, j \in 1..Len(seq) : seq[i] = seq[j] => i = j

C1_State ==
    \A k \in Kinds :
        /\ Len(insts[k]) <= 1
        /\ slot[k] \in 0..Len(insts[k])
        /\ returned[k] # {} => returned[k] = {slot[k]} /\ slot[k] # 0
        /\ \A w \in Workers :
              kind[w] = k /\ pc[w] \in {"construct", "assign"} => slot[k] = 0

C1_Step ==
    \A k \in Kinds : slot[k] # 0 => slot'[k] = slot[k]

\* C1: for every agent kind, under any race of callers on its getter, the
\* constructor completes at most once and never runs once the slot is
\* non-empty, every caller the getter returns to receives the one instance in
\* the slot, and a non-empty slot is never written again.
C1_Singleton == []C1_State /\ [][C1_Step]_vars

\* C1 witness: two callers raced on the first access of a sync getter: one has
\* constructed and stored the instance, the other passed the unlocked check
\* before that and now holds the lock in front of the second check.
C1_Witness ==
    \E w1, w2 \in Workers :
        /\ w1 # w2
        /\ kind[w1] \in SyncKinds
        /\ kind[w2] = kind[w1]
        /\ pc[w1] = "ret"
        /\ pc[w2] = "check2"
        /\ slot[kind[w1]] # 0

\* C9 (as claimed): whenever a getter call ends by raising, because the
\* constructor or the initialization failed, the registry slot of its kind is
\* empty afterwards, so that the next call constructs again.
C9_FailureLeavesSlotEmpty ==
    [][\A w \in Workers :
          pc[w] # "idle" /\ outcome'[w] = "raised" /\ outcome[w] # "raised"
              => slot'[kind[w]] = 0]_vars

Done == Quiet /\ last.op = "chat"

\* the refusal markers as the claims name them
ClaimedRefusal(text) ==
    \/ Contains(<<"I", "don't", "know", "the", "answer">>, text)
    \/ Contains(<<"The", "document", "does", "not">>, text)

\* the primary response of the call that ended was obtained and is a refusal
Refused == last.c.listed /\ ClaimedRefusal(last.c.resp)

\* what the call that ended has added to the thread it came in on
Grown ==
    SubSeq(threads[last.c.tid], last.c.base + 1, Len(threads[last.c.tid]))

\* the messages a call adds that runs the whole fallback
FallbackEntries ==
    <<UserMsg(last.c.query)>>
        \o (IF last.c.produced THEN <<AssistantMsg(last.c.resp)>> ELSE << >>)
        \o <<AssistantMsg(<<"[Recovered Answer]", "\n">> \o last.c.fb)>>

IsPrefix(a, b) == Len(a) <= Len(b) /\ SubSeq(b, 1, Len(a)) = a

\* C2: a call whose primary response holds a refusal marker, and in which no
\* external call raises, creates exactly one ephemeral thread, which is not the
\* thread of the call and whose only user message is the query of the call,
\* runs the one agent twice, and returns the last assistant text of the
\* ephemeral thread (the no-fallback-response text when there is none).
C2_FallbackReplaysQuery ==
    Done /\ Refused /\ last.status = "ok" =>
        /\ last.c.eph = 1
        /\ last.c.tmp \in 1..Len(threads)
        /\ last.c.tmp # last.c.tid
        /\ last.c.tmp \notin issued
        /\ Len(threads[last.c.tmp]) \in {1, 2}
        /\ threads[last.c.tmp][1] = UserMsg(last.c.query)
        /\ \A i \in 2..Len(threads[last.c.tmp]) :
              threads[last.c.tmp][i].role = "assistant"
        /\ last.c.runs = 2
        /\ Cardinality(last.c.agents) = 1
        /\ last.result = LastAssistantText(threads[last.c.tmp], NoFallbackResponse)

\* C2 witness: the primary response was a refusal and the call returned the
\* answer the ephemeral thread gave.
C2_Witness ==
    /\ Done
    /\ Refused
    /\ last.status = "ok"
    /\ last.c.produced
    /\ last.result = Answer
    /\ threads[last.c.tmp] = <<UserMsg(last.c.query), AssistantMsg(Answer)>>

\* C3: a call whose primary response holds no refusal marker returns that
\* response, creates no ephemeral thread, runs the agent once and adds nothing
\* to its thread beyond the query and the message of the run.
C3_NoMarkerReturnsResponse ==
    Done /\ last.c.listed /\ ~ClaimedRefusal(last.c.resp) =>
        /\ last.status = "ok"
        /\ last.result = last.c.resp
        /\ last.result = LastAssistantText(threads[last.c.tid], NoResponse)
        /\ last.c.eph = 0
        /\ last.c.tmp = 0
        /\ last.c.runs = 1
        /\ Grown = <<UserMsg(last.c.query)>>
                      \o (IF last.c.produced
                          THEN <<AssistantMsg(last.c.resp)>> ELSE << >>)

\* C3 witness: the agent answered and the call returned the answer.
C3_Witness ==
    /\ Done
    /\ last.c.listed
    /\ last.c.produced
    /\ last.result = Answer
    /\ last.c.eph = 0

\* the primary call of the chat_on_thread call that ended failed on the
\* transport
TransportFailure ==
    /\ Done
    /\ last.status = "error"
    /\ last.phase = "primary"
    /\ last.err.type \in TransportErrors

\* C4 (as claimed): a transport failure during the primary call creates no
\* ephemeral thread and returns the one fixed error text.
C4_FixedErrorString ==
    TransportFailure =>
        /\ last.c.eph = 0
        /\ last.c.tmp = 0
        /\ last.result = ConnectionLost

\* C4 (amended): a transport failure during the primary call creates no
\* ephemeral thread, runs the agent at most once, and returns an error text
\* that no agent response and no fallback result equals: the fixed
\* connection-lost text for a ServiceResponseError whose text holds "Remote end
\* closed connection without response", "Service error: " and the text of the
\* error for any other ServiceResponseError, "Unexpected error occurred: " and
\* the text of the error for every other exception.
C4_TransportFailure ==
    TransportFailure =>
        /\ last.c.eph = 0
        /\ last.c.tmp = 0
        /\ last.c.runs <= 1
        /\ last.result \notin Responses \cup {NoResponse, NoFallbackResponse}
        /\ Head(last.result) = "(x)"
        /\ last.result =
              CASE /\ last.err.type = "ServiceResponseError"
                   /\ Contains(<<"Remote", "end", "closed", "connection",
                                 "without", "response">>, last.err.msg)
                     -> ConnectionLost
                [] /\ last.err.type = "ServiceResponseError"
                   /\ ~Contains(<<"Remote", "end", "closed", "connection",
                                  "without", "response">>, last.err.msg)
                     -> <<"(x)", "Service", "error:">> \o last.err.msg
                [] OTHER
                     -> <<"(x)", "Unexpected", "error", "occurred:">> \o last.err.msg

\* C4 witness: the run of the primary call failed with a read timeout.
C4_Witness ==
    /\ TransportFailure
    /\ last.c.runs = 1
    /\ last.err.type = "ServiceResponseError"
    /\ last.result # ConnectionLost

\* C5: for sequential calls on a thread, a call that does not fall back and
\* whose run produced its message adds exactly the User query and the
\* Assistant response; a call that falls back adds at most 3 messages, the
\* query, the primary response and the recovered entry in this order when the
\* fallback ran to its end, and one User message at most; the ephemeral
\* thread is another thread.
C5_HistoryGrowth ==
    Done =>
        /\ last.status = "ok" /\ last.c.tmp = 0 /\ last.c.produced =>
              Grown = <<UserMsg(last.c.query), AssistantMsg(last.c.resp)>>
        /\ Refused =>
              /\ Len(Grown) <= 3
              /\ Cardinality({i \in 1..Len(Grown) : Grown[i].role = "user"}) <= 1
              /\ last.c.tmp # last.c.tid
              /\ last.status = "ok" => Grown = FallbackEntries
        /\ Len(threads[last.c.tid]) = last.c.base + Len(Grown)

\* C5 witness: the second call on a thread fell back and added 3 messages.
C5_Witness ==
    /\ Done
    /\ last.c.base >= 2
    /\ Refused
    /\ last.status = "ok"
    /\ Len(Grown) = 3

\* C6: no call creates more than one ephemeral thread or runs the agent more
\* than twice, and a call that fell back returns the fallback response as it
\* is, a refusal included.
C6_FallbackOnce ==
    /\ \A w \in Workers : call[w].eph <= 1 /\ call[w].runs <= 2
    /\ last.c.eph <= 1
    /\ last.c.runs <= 2
    /\ Done /\ last.status = "ok" /\ last.c.tmp # 0 =>
          /\ last.result = last.c.fb
          /\ last.c.fb = LastAssistantText(threads[last.c.tmp], NoFallbackResponse)

\* C6 witness: the fallback response was a refusal too, and was returned.
C6_Witness ==
    /\ Done
    /\ last.status = "ok"
    /\ last.c.tmp # 0
    /\ ClaimedRefusal(last.result)

C7_Step ==
    /\ \A t \in 1..Len(threads) :
          /\ t <= Len(threads')
          /\ IsPrefix(threads[t], threads'[t])
    /\ \A i \in 1..Len(insts["ad"]) : \A t \in DOMAIN insts["ad"][i].hist :
          /\ i <= Len(insts'["ad"])
          /\ t \in DOMAIN insts'["ad"][i].hist
          /\ IsPrefix(insts["ad"][i].hist[t], insts'["ad"][i].hist[t])
    /\ \A w \in Workers :
          pc[w] = "f_store" /\ last'.status = "ok" =>
              threads'[call[w].tid] =
                  Append(threads[call[w].tid],
                         AssistantMsg(<<"[Recovered Answer]", "\n">> \o call[w].fb))

\* C7: every step of chat_on_thread and of /ad/chat leaves each thread's
\* messages as a prefix of what the thread holds afterwards, and the recovered
\* answer is appended as one new Assistant message, "[Recovered Answer]\n"
\* followed by the fallback response.
C7_AppendOnly == [][C7_Step]_vars

\* C7 witness: a recovered answer stands at the end of a thread after the
\* messages that were there, and an /ad/chat call has added its two messages.
C7_Witness ==
    /\ Done
    /\ last.status = "ok"
    /\ last.c.tmp # 0
    /\ Len(threads[last.c.tid]) = 3
    /\ threads[last.c.tid][3] = AssistantMsg(Recovered(last.c.fb))
    /\ \E i \in 1..Len(insts["ad"]) : \E t \in DOMAIN insts["ad"][i].hist :
          Len(insts["ad"][i].hist[t]) = 2

\* C8 (as claimed): after a call that fell back, the thread has gained the
\* User query and the recovered entry, and the refused primary response is
\* not among the messages it gained.
C8_RefusalNotKept ==
    Done /\ last.status = "ok" /\ last.c.tmp # 0 =>
        /\ Grown = <<UserMsg(last.c.query),
                     AssistantMsg(<<"[Recovered Answer]", "\n">> \o last.c.fb)>>
        /\ \A i \in 1..Len(Grown) : Grown[i] # AssistantMsg(last.c.resp)

\* C8 (amended): after a call that fell back, the thread has gained the User
\* query, then the refused primary response when the run produced one, then
\* the recovered entry; the refusal stays in the thread.
C8_RefusalKept ==
    Done /\ last.status = "ok" /\ last.c.tmp # 0 =>
        /\ Grown = FallbackEntries
        /\ last.c.produced =>
              /\ Grown[2].role = "assistant"
              /\ ClaimedRefusal(Grown[2].content)

\* C8 witness: the thread holds the query, the refusal and the recovered entry.
C8_Witness ==
    /\ Done
    /\ last.status = "ok"
    /\ last.c.tmp # 0
    /\ last.c.produced
    /\ Grown = <<UserMsg(last.c.query), AssistantMsg(RefusalDontKnow),
                 AssistantMsg(Recovered(Answer))>>

\* ------------------------------------------------- claims: the endpoints
\* the token is one the identity provider issued and is not expired
Genuine(tok) ==
    tok.form = "jwt" /\ tok.kid = "known" /\ tok.sig = "issuer" /\ ~tok.expired

\* a handler, or a getter it called, is running for worker w
InHandler(w) == pc[w] # "idle" /\ op[w] # "get"

\* C11 (as claimed): a request whose credential is missing, malformed, expired
\* or otherwise not genuine is answered 401 before any agent logic runs:
\* whenever a handler runs (calls a getter, constructs an agent, creates a
\* thread, changes a history), the token of its request is genuine.
C11_InvalidCredentialRejected ==
    \A w \in Workers : InHandler(w) => Genuine(cred[w])

\* C15 (as claimed): for every agent kind, every thread id a thread-creation
\* request returns differs from every thread id returned earlier for that
\* kind.
C15_ThreadIdsNeverReused ==
    \A k \in Kinds : NoDuplicates(handed[k])

\* the chat operations
ChatOps == {"chat", "ad_chat", "agent_chat", "orch_chat"}

\* worker w has answered a chat request with success
ChatAnswered(w) == pc[w] = "idle" /\ op[w] \in ChatOps /\ reply[w].code = 200

SameContext(ctx, h) ==
    /\ Len(ctx) = Len(h)
    /\ \A i \in 1..Len(h) :
          /\ DOMAIN ctx[i] = {"role", "content"}
          /\ ctx[i].role \in {"user", "assistant"}
          /\ ctx[i].role = "user" <=>
                ("role" \in DOMAIN h[i] /\ h[i].role = "user")
          /\ ctx[i].content =
                (IF "content" \in DOMAIN h[i] THEN h[i].content ELSE << >>)

\* C13: a stateless chat endpoint (Entra, Okta, Saviynt) hands its agent the
\* chat_history of the request, converted message by message, whatever calls
\* came before, and the service stores no history for these kinds; /ad/chat
\* hands its agent the history the server keeps for the thread, ending with
\* the message of the request, and /chat works on the server-side thread; no
\* chat_history of a request reaches either of the two.
C13_ContextSplit ==
    /\ \A w \in Workers :
          /\ pc[w] = "ag_proc" =>
                /\ kind[w] \in StatelessKinds
                /\ SameContext(call[w].ctx, call[w].hist)
          /\ pc[w] = "ad_proc" =>
                /\ call[w].hist = << >>
                /\ call[w].ctx = insts["ad"][got[w]].hist[call[w].atid]
                /\ call[w].ctx[Len(call[w].ctx)] = UserMsg(call[w].query)
          /\ op[w] = "chat" /\ pc[w] # "idle" =>
                /\ call[w].hist = << >>
                /\ call[w].ctx = << >>
                /\ call[w].tid \in issued
    /\ \A k \in Kinds \ {"ad"} : \A i \in 1..Len(insts[k]) :
          insts[k][i].hist = << >>

\* C13 witness: the second request is a stateless chat whose chat_history
\* holds a message of another role and a message without keys, and its
\* context has been built.
C13_Witness ==
    \E w \in Workers :
        /\ pc[w] = "ag_proc"
        /\ ncalls = 2
        /\ Len(call[w].hist) = 2
        /\ Get(call[w].hist[1], "role", "none") = "system"
        /\ DOMAIN call[w].hist[2] = {}
        /\ Len(call[w].ctx) = 2

\* ------------------------------------------- claims: the chat histories
\* the roles of the messages of a history, in order
Roles(msgs) == [i \in 1..Len(msgs) |-> msgs[i].role]

\* msgs is a run of pairs of one User and one Assistant message
UserAssistantPairs(msgs) ==
    /\ Len(msgs) % 2 = 0
    /\ \A i \in 1..Len(msgs) :
          msgs[i].role = (IF i % 2 = 1 THEN "user" ELSE "assistant")

\* C14 (as claimed): every chat call, one whose agent invocation fails
\* included, appends exactly one User and one Assistant entry to the history
\* of its thread: the thread of /chat has gained these two when
\* chat_on_thread has ended, and every history of /ad/chat is a run of such
\* pairs whenever no request is being served.
C14_OneUserOneAssistant ==
    /\ Done => Roles(Grown) = <<"user", "assistant">>
    /\ Quiet =>
          \A i \in 1..Len(insts["ad"]) : \A t \in DOMAIN insts["ad"][i].hist :
              UserAssistantPairs(insts["ad"][i].hist[t])

\* C16 (as claimed): a primary response that says "I don't know the answer"
\* and a primary response that says "The information is not available" each
\* make chat_on_thread retry the query in a temporary thread.
C16_BothWordingsRetried ==
    Done /\ last.status = "ok" /\ last.c.listed
         /\ (\/ Contains(<<"I", "don't", "know", "the", "answer">>, last.c.resp)
             \/ Contains(<<"The", "information", "is", "not", "available">>,
                         last.c.resp))
      => last.c.eph = 1 /\ last.c.tmp # 0 /\ last.c.runs = 2

\* ------------------------------------------ claims: the ephemeral thread
\* the threads no client was given: the ephemeral threads of fallbacks
Ephemeral == {t \in 1..Len(threads) : t \notin issued}

C17_State ==
    Done /\ last.status = "ok" /\ last.c.tmp # 0 =>
        LET tmp == threads[last.c.tmp] IN
        /\ last.c.tmp \in Ephemeral
        /\ last.c.tmp # last.c.tid
        /\ last.c.runs = 2
        /\ Cardinality(last.c.agents) = 1
        /\ Len(tmp) \in {1, 2}
        /\ tmp[1] = UserMsg(last.c.query)
        /\ last.result # NoFallbackResponse =>
              tmp = <<UserMsg(last.c.query), AssistantMsg(last.result)>>

C17_Step ==
    /\ \A w \in Workers :
          pc[w] = "f_thread" /\ pc'[w] = "f_msg" =>
              /\ call'[w].tmp = Len(threads) + 1
              /\ threads' = Append(threads, << >>)
    /\ \A t \in Ephemeral :
          /\ t \notin issued'
          /\ (\A w \in Workers : call[w].tmp # t) => threads'[t] = threads[t]

AwaitPcs ==
    {"ad_init", "entra_connect", "entra_init", "mcp_init", "ad_proc",
     "ag_proc", "orch_proc", "c_run", "f_run"}

\* C18 (as claimed): no request that is suspended on an external call holds a
\* registry lock.
C18_NoLockAcrossAwait ==
    \A w \in Workers :
        pc[w] \in AwaitPcs => \A k \in Kinds : lock[k] # w

\* C19 (as claimed): every agent an async getter has returned completed its
\* initialization / tool discovery before it was returned.
C19_ReturnedInitialized ==
    \A k \in AsyncKinds : \A i \in returned[k] :
        /\ insts[k][i].inits >= 1
        /\ k = "ad" => insts[k][i].ready

\* ------------------------------------------------ claims: message order
\* the number of the request that sent the user message m
QueryNo(m) == CHOOSE n \in 1..MaxCalls : m.content = Query(n)

IsRecovered(m) ==
    /\ m.role = "assistant"
    /\ Len(m.content) >= 2
    /\ SubSeq(m.content, 1, 2) = <<"[Recovered Answer]", "\n">>

\* the messages of a history stand in the order of the calls that wrote them:
\* the User entries in the order of their requests, an Assistant entry only
\* after a User entry, a recovered entry as the last entry of its call
InCallOrder(msgs) ==
    /\ \A i, j \in 1..Len(msgs) :
          i < j /\ msgs[i].role = "user" /\ msgs[j].role = "user"
              => QueryNo(msgs[i]) < QueryNo(msgs[j])
    /\ msgs # << >> => msgs[1].role = "user"
    /\ \A i \in 1..Len(msgs) :
          IsRecovered(msgs[i]) => i = Len(msgs) \/ msgs[i + 1].role = "user"

\* what the call of worker w has added so far to the thread it came in on
GrownBy(w) ==
    SubSeq(threads[call[w].tid], call[w].base + 1, Len(threads[call[w].tid]))

\* C20: for sequential calls on a thread, in every state the entries of the
\* running call stand after all entries the thread had when the call came in,
\* the User entry first, then the Assistant entry, then the recovered entry;
\* so every history holds its entries in the order of the calls, for
\* chat_on_thread and for /ad/chat.
C20_MessageOrder ==
    /\ \A t \in issued : InCallOrder(threads[t])
    /\ \A i \in 1..Len(insts["ad"]) : \A t \in DOMAIN insts["ad"][i].hist :
          /\ InCallOrder(insts["ad"][i].hist[t])
          /\ \A j \in 2..Len(insts["ad"][i].hist[t]) :
                insts["ad"][i].hist[t][j].role = "assistant"
                    => insts["ad"][i].hist[t][j - 1].role = "user"
    /\ \A w \in Workers :
          op[w] = "chat" /\ pc[w] \notin {"idle", "check1", "acquire", "check2",
                                          "construct", "assign", "ret"} =>
              LET g == GrownBy(w) IN
              /\ Len(g) <= 3
              /\ g # << >> => g[1] = UserMsg(call[w].query)
              /\ \A j \in 2..Len(g) : g[j].role = "assistant"
              /\ Len(g) = 3 => g[3] = AssistantMsg(Recovered(call[w].fb))
    /\ Done /\ last.status = "ok" /\ last.c.tmp # 0 =>
          Grown[Len(Grown)] = AssistantMsg(Recovered(last.c.fb))

\* C20 witness: a call that fell back and a later call that did not have both
\* written to the one thread.
C20_Witness ==
    /\ Done
    /\ last.status = "ok"
    /\ last.c.tmp = 0
    /\ last.c.base = 3
    /\ Len(Grown) = 2
    /\ IsRecovered(threads[last.c.tid][3])

\* ------------------------------------------- claims: failures while chatting
\* the chat_on_thread call that ended failed on something that is no failure of
\* the transport
UnexpectedFailure ==
    /\ Done
    /\ last.status = "error"
    /\ last.err.type \notin TransportErrors

\* C21 (as claimed): an unexpected failure while a chat request is served is
\* reported as HTTP 500 whose detail carries the text of the failure, for
\* POST /chat and POST /ad/chat, and never as a successful reply.
C21_UnexpectedFailureIs500 ==
    /\ \A w \in Workers :
          UnexpectedFailure /\ op[w] = "chat" /\ reply[w] # NoReply =>
              /\ reply[w].code = 500
              /\ Contains(last.err.msg, reply[w].body.detail)
    /\ \A w \in Workers :
          op[w] = "ad_chat" /\ pc[w] = "idle" /\ reply[w].code = 200 =>
              reply[w].body.result \in Responses

\* the fallback of the chat_on_thread call that ended failed
FallbackFailure ==
    /\ Done
    /\ last.status = "error"
    /\ last.phase = "fallback"

\* C22: when an external call of the fallback raises, after the primary call
\* gave a refusal, chat_on_thread returns the error text of its except
\* clauses, which is not the refusal, and does not raise: the endpoint answers
\* 200 with that text. No recovered entry is added, and the thread of the call
\* holds what it held before the failure: the User query and, when the run
\* produced one, the primary response.
C22_FallbackFailure ==
    FallbackFailure =>
        /\ HasRefusalMarker(last.c.resp)
        /\ last.result = OnError(last.err)
        /\ last.result # last.c.resp
        /\ last.result \notin Responses \cup {NoResponse, NoFallbackResponse}
        /\ \A w \in Workers :
              op[w] = "chat" /\ reply[w] # NoReply =>
                  reply[w] = [code |-> 200, body |-> [reply |-> last.result]]
        /\ Grown = <<UserMsg(last.c.query)>>
                      \o (IF last.c.produced
                          THEN <<AssistantMsg(last.c.resp)>> ELSE << >>)
        /\ \A i \in 1..Len(threads[last.c.tid]) :
              ~IsRecovered(threads[last.c.tid][i])
                  \/ i <= last.c.base

\* C22 witness: the run on the ephemeral thread raised, after the primary run
\* had written a refusal to the thread of the call.
C22_Witness ==
    /\ FallbackFailure
    /\ last.c.produced
    /\ last.c.tmp # 0
    /\ last.c.runs = 2
    /\ Len(threads[last.c.tmp]) = 1
    /\ Len(Grown) = 2

\* ------------------------------------------------- claims: thread ids
\* the server state: the registry and its agents, and the thread store
serverVars ==
    <<slot, lock, insts, cand, returned, discAtEntry, outcome, threads, issued>>

\* the thread id of worker w's request is one its thread endpoint made up
Issued(w) ==
    \E i \in 1..Len(handed[kind[w]]) : handed[kind[w]][i] = call[w].atid

\* what a stateless chat endpoint of kind k may answer, whatever the thread id
AgentReplies(w) ==
    { [code |-> 200, body |-> [action |-> ActionOf(kind[w]), result |-> r]] :
          r \in Responses }
        \cup { [code |-> 500,
                body |-> [detail |-> <<FailedPrefix(w)>> \o McpError]] }

C23_State ==
    \A w \in Workers :
        /\ op[w] = "agent_chat" /\ pc[w] = "ag_proc" =>
              /\ call[w].ctx = ToChatHistory(call[w].hist)
              /\ \A r \in AgentReplies(w) :
                    ENABLED (AgentProcessDone(w) /\ reply'[w] = r)
        /\ op[w] = "agent_chat" /\ pc[w] = "idle" => reply[w].code # 404

C23_Step ==
    \A w \in Workers :
        op[w] = "agent_chat" =>
            /\ pc[w] = "ag_conv" /\ pc'[w] # "ag_conv" =>
                  /\ pc'[w] = "ag_proc"
                  /\ call'[w].atid = call[w].atid
                  /\ call'[w].query = call[w].query
            /\ pc[w] = "ag_proc" /\ pc'[w] # "ag_proc" =>
                  /\ pc'[w] = "idle"
                  /\ reply'[w] \in AgentReplies(w)
            /\ pc[w] \in {"ag_conv", "ag_proc"} =>
                  UNCHANGED <<serverVars, handed>>

\* C23: for Entra, Okta and Saviynt the thread id of a chat request is not
\* read: the context given to the agent is the converted chat_history of the
\* request, the answers the endpoint may give are the same for every thread
\* id, a request with an id no thread endpoint made up is not rejected, and
\* no server state changes.
C23_ThreadIdIsCorrelationOnly == []C23_State /\ [][C23_Step]_vars

\* C23 witness: a request with a thread id no endpoint made up has had its
\* chat_history converted and awaits the agent.
C23_Witness ==
    \E w \in Workers :
        /\ op[w] = "agent_chat"
        /\ pc[w] = "ag_proc"
        /\ call[w].atid = UnknownThreadId
        /\ ~Issued(w)
        /\ Len(call[w].ctx) = 2

C24_Step ==
    \A w \in Workers :
        /\ op'[w] = "id_thread" /\ (pc[w] = "idt_make" \/ pc'[w] = "idt_make") =>
              UNCHANGED serverVars
        /\ pc[w] = "idt_make" /\ pc'[w] # "idt_make" =>
              /\ reply'[w].code = 201
              /\ reply'[w].body.thread_id
                    \in {ThreadIdOf(kind[w], x) : x \in RandomHex}
        /\ pc[w] = "th_create" /\ reply'[w].code = 201 =>
              /\ slot["assistant"] # 0
              /\ threads' = Append(threads, << >>)
        /\ pc[w] = "adt_create" /\ reply'[w].code = 201 =>
              /\ slot["ad"] # 0
              /\ call[w].atid \in DOMAIN insts'["ad"][got[w]].hist

\* C24: a request to the thread endpoint of the orchestrator, Entra, Okta or
\* Saviynt changes nothing in the registry, its agents and the thread store,
\* from its arrival to its 201 answer; POST /thread answers 201 with the
\* assistant constructed and a new thread in the thread store, POST
\* /ad/thread with the AD agent constructed and a history stored in it.
C24_IdThreadChangesNothing == [][C24_Step]_vars

\* C24 witness: a thread id was handed out for a stateless kind while no
\* agent exists and the thread store is empty.
C24_Witness ==
    \E w \in Workers :
        /\ op[w] = "id_thread"
        /\ pc[w] = "idle"
        /\ reply[w].code = 201
        /\ \E k \in IdThreadKinds : handed[k] # << >>
        /\ \A k \in Kinds : slot[k] = 0 /\ insts[k] = << >>
        /\ threads = << >>

\* ---------------------------------------------------- claims: progress
\* C25: when every call goes on, every getter call returns or raises, and
\* every lock that is taken is released, in every interleaving of the calls,
\* also when a coroutine is suspended in initialize() with the lock held: at
\* any time, a later time comes at which the caller is out of the getter, and
\* one at which the lock is free.
C25_NoDeadlock ==
    /\ \A w \in Workers : []<>(pc[w] = "idle")
    /\ \A k \in Kinds : []<>(lock[k] = 0)

\* C25 witness: a coroutine is suspended in initialize() with the AD lock
\* held while another call of get_ad_agent is about to run.
C25_Witness ==
    \E v, w \in Workers :
        /\ v # w
        /\ pc[v] = "ad_init"
        /\ lock["ad"] = v
        /\ pc[w] = "enter"
        /\ kind[w] = "ad"

\* --------------------------------------------- claims: concurrent calls
\* C26 (as claimed): the text a chat_on_thread call returns without a fallback
\* is the Assistant message its own run wrote, also when another call runs on
\* the same thread at the same time.
C26_OwnResponse ==
    last.op = "chat" /\ last.status = "ok" /\ last.c.tmp = 0 /\ last.c.produced
        => last.result = last.c.own

\* ------------------------------------------------ claims: dashboard cache
\* the age of the cached snapshot
Age == clock - dashboard_cache_ts

\* worker w takes a dashboard request in this step
DashboardArrives(w) == ncalls' = ncalls + 1 /\ refreshed'[w].no = ncalls'

C27_Step ==
    \A w \in Workers :
        /\ DashboardArrives(w) =>
              IF /\ refreshed'[w].refresh = 0
                 /\ dashboard_cache # 0
                 /\ Age < DASHBOARD_TTL_SECONDS
              THEN /\ pc'[w] = "idle"
                   /\ reply'[w] = DashboardData(dashboard_cache)
                   /\ UNCHANGED <<dashboard_cache, dashboard_cache_ts, builds>>
              ELSE \/ pc'[w] = "d_build"
                   \/ pc'[w] = "idle" /\ reply'[w].code = 500
        /\ pc[w] = "d_build" /\ pc'[w] # "d_build" =>
              /\ pc'[w] = "idle"
              /\ reply'[w].code \in {200, 500}
              /\ reply'[w].code = 200 =>
                    /\ builds' = builds + 1
                    /\ dashboard_cache' = builds'
                    /\ dashboard_cache_ts' = clock
                    /\ reply'[w] = DashboardData(builds')

\* C27: a dashboard request is answered from the cache, with no build started,
\* exactly when refresh is 0, a snapshot is cached and its age is below the
\* TTL; every other request starts a build, and a build that succeeds stores
\* its snapshot with the time of the store and returns it. A snapshot of age
\* TTL or more is not served.
C27_CacheHitExactly == [][C27_Step]_vars

\* C27 witness: a request with refresh 0 was answered from the cache after
\* time had passed since the store.
C27_Witness ==
    \E w \in Workers :
        /\ op[w] = "dashboard"
        /\ pc[w] = "idle"
        /\ refreshed[w] = [no |-> 2, refresh |-> 0]
        /\ builds = 1
        /\ ncalls = 2
        /\ reply[w] = DashboardData(dashboard_cache)
        /\ Age = 1

C28_State ==
    /\ dashboard_cache # 0 => dashboard_cache_ts = stored
    /\ dashboard_cache = 0 => dashboard_cache_ts = 0
    /\ \A w \in Workers : pc[w] = "d_build" => dashboard_cache_lock = 0

C28_Step ==
    \A w \in Workers :
        pc[w] = "d_build" /\ reply'[w].code = 500 =>
            UNCHANGED <<dashboard_cache, dashboard_cache_ts>>

\* C28: a build that fails leaves the cached snapshot and its timestamp as
\* they were; the cache lock is free while a build is awaited; the snapshot
\* and the timestamp are written in one step, also when several requests miss
\* the cache at the same time, so the timestamp is the time at which the
\* cached snapshot was stored.
C28_CacheWrittenTogether == []C28_State /\ [][C28_Step]_vars

\* C28 witness: a build failed while another request awaits its build and an
\* older snapshot is cached.
C28_Witness ==
    \E v, w \in Workers :
        /\ v # w
        /\ op[w] = "dashboard"
        /\ pc[w] = "idle"
        /\ reply[w] = DashboardFailed(BuildError)
        /\ pc[v] = "d_build"
        /\ dashboard_cache # 0
        /\ clock > stored

\* ------------------------------------------------- claims: the client
ThreadIdKeys == {ThreadIdKey(p) : p \in ChatPages}

\* the chat history keys of a page
HistoryKeys(p) ==
    IF p \notin ChatPages THEN {}
    ELSE {TranscriptKey(p)}
            \cup (IF p \in StatelessPages THEN {AgentHistoryKey(p)} ELSE {})

\* the keys of the pages other than p, and the thread ids
OtherKeys(p) ==
    ThreadIdKeys
        \cup UNION {ClearedKeys(q) \cup HistoryKeys(q) : q \in Pages \ {p}}

\* handle_page_entry on the session as it is, for every active page a, with
\* a as the last page and with another last page
C29_State ==
    \A a \in Pages :
        /\ HandlePageEntry(session, a, a) = session
        /\ LET s == HandlePageEntry(session, "none", a) IN
           /\ \A k \in HistoryKeys(a) : k \notin DOMAIN s
           /\ \A k \in DOMAIN session :
                 IF k \in DOMAIN s THEN s[k] = session[k]
                 ELSE k \notin OtherKeys(a)

\* a script run
C29_Step ==
    pending /\ ~pending' =>
        /\ last_active_page = active_page =>
              \A k \in DOMAIN session \ {OriginalPromptKey(active_page)} :
                  k \in DOMAIN session' /\ session'[k] = session[k]
        /\ last_active_page # active_page =>
              \A k \in HistoryKeys(active_page) :
                  GetOr(session', k, << >>) = << >>
        /\ \A k \in DOMAIN session :
              IF k \in DOMAIN session'
              THEN session'[k] # session[k] => k \notin OtherKeys(active_page)
              ELSE k \notin OtherKeys(active_page)

C30_State ==
    \A p \in StatelessPages :
        LET h == GetOr(session, AgentHistoryKey(p), << >>) IN
        /\ Len(h) = 2 * since[p]
        /\ \A i \in 1..Len(h) :
              h[i].role = IF i % 2 = 1 THEN "user" ELSE "assistant"

C30_Step ==
    \A p \in StatelessPages :
        since'[p] = since[p] + 1 =>
            LET h == GetOr(session, AgentHistoryKey(p), << >>)
                h2 == session'[AgentHistoryKey(p)]
                shown == session'[TranscriptKey(p)]
            IN
            /\ sent'.page = p
            /\ sent'.chat_history = h
            /\ Len(sent'.chat_history) = 2 * since[p]
            /\ \A i \in 1..Len(h) : h[i].content # sent'.message
            /\ Len(h2) = Len(h) + 2
            /\ SubSeq(h2, 1, Len(h)) = h
            /\ h2[Len(h) + 1] = UserMsg(sent'.message)
            /\ h2[Len(h) + 2] = AssistantMsg(shown[Len(shown)][2])
            /\ shown[Len(shown)][1] = sent'.message
            /\ shown[Len(shown)][2] \in {Answer, FailedToExecute}

\* C30: the agent history a stateless page keeps has even length and holds
\* user and assistant entries in turn, a user entry first; the chat_history
\* sent with the n-th query since the history was last deleted is the history
\* as it is, of 2(n-1) entries, without the query; and when the request has
\* ended, with an answer or with a failure, the query as user entry and the
\* result text as assistant entry are added, and nothing else.
C30_AgentHistory == []C30_State /\ [][C30_Step]_vars

\* C30 witness: the second query of a page was sent with the two entries of
\* the first, whose request had failed.
C30_Witness ==
    \E p \in StatelessPages :
        /\ since[p] = 2
        /\ sent.page = p
        /\ Len(sent.chat_history) = 2
        /\ sent.chat_history[2] = AssistantMsg(FailedToExecute)
        /\ Len(session[AgentHistoryKey(p)]) = 4

====
